---- MODULE Spec2Model ----
(***************************************************************************)
(* Model of the WatermarkRemover processing pipeline.                      *)
(*                                                                         *)
(*   SpecTimeline : the KeyframeManager (src/src/core/keyframe_manager.py) *)
(*                  driven by add/remove/clear and zone queries.           *)
(*   Spec         : one ProcessingWorker.run (src/src/app.py) executing    *)
(*                  process_video (src/propainter/processor.py) while the  *)
(*                  foreground may call ProcessingWorker.cancel.           *)
(*                                                                         *)
(* Python values are modelled as follows: a dict is a function, a list is  *)
(* a sequence, a decimal key string is the sequence of its digits, a mask  *)
(* raster is the set of its non-zero pixels <<x, y>> within the frame, a   *)
(* frame is a record of its source index, its channel layout and whether   *)
(* its pixels are the source's or the inpainting model's.                  *)
(***************************************************************************)
EXTENDS Integers, Sequences, FiniteSets, TLC

VARIABLES
    \* ---- KeyframeManager (foreground) ----
    _keyframes,      \* KeyframeManager._keyframes : frame -> list of zones
    query_frame,     \* argument of the last get_zones_at_frame call
    zones_result,    \* its return value
    \* ---- the job's inputs ----
    src_n,           \* number of frames the source decodes to
    chunk_size,      \* process_video(chunk_size=...)
    keyframes,       \* ProcessingWorker.keyframes : digit string -> zones
    \* ---- ProcessingWorker / process_video ----
    pc,              \* position of the worker thread
    _cancelled,      \* ProcessingWorker._cancelled
    signals,         \* Qt signals emitted by the worker, in order
    cap_open,        \* cv2.VideoCapture handle is open
    cap_pos,         \* frames decoded so far by cap.read()
    out_open,        \* cv2.VideoWriter handle is open
    total_frames,    \* process_video local
    model,           \* LamaInpainter.model : "SimpleLama" or "None"
    frame_idx,       \* process_video local
    frames_buffer,   \* process_video local
    masks_buffer,    \* process_video local
    processed,       \* frames returned by the batch call, not yet written
    sink,            \* frames handed to out.write, in order
    temp_file,       \* <output_path>.temp.avi : "absent" | "open" | "closed"
    output_file,     \* output_path : "absent" | "partial" | "muxed" | "raw"
    batches,         \* log of LamaInpainter.process_video calls
    model_calls,     \* log of self.model(frame, mask) invocations
    progress_calls,  \* log of progress_callback invocations
    cancel_at,       \* history: where the worker stood when cancel() was called
    mux_result,      \* history: convert_to_mp4 "none" | "notfound" | "failed" | "ok"
    ffmpeg_call,     \* history: what get_ffmpeg_path probed and gave back
    \* ---- KeyframeManager.remove_zone calls ----
    remove_call,     \* arguments and return value of the last remove_zone call
    \* ---- create_mask_from_zones calls ----
    mask_w,          \* width argument
    mask_h,          \* height argument
    mask_zones,      \* zones argument
    mask_result,     \* the returned raster, made = FALSE before the call
    \* ---- persistence: <video_path>.zones.json ----
    sidecar,         \* what the file system holds at the sidecar path
    saved,           \* the timeline the last save_to_file wrote, while the
                     \* sidecar is still that file
    load_call,       \* outcome of the last load_from_file call
    \* ---- VideoPlayer ----
    video,           \* the VideoPlayer object: its seven attributes
    decoders_open,   \* number of decoder handles the process holds open
    player_call,     \* the last VideoPlayer method called and what it returned
    \* ---- WatermarkRemoverApp and its ProcessingWorker ----
    _processing,     \* self._processing
    _worker,         \* self._worker: the ProcessingWorker and its keyframes dict
    _worker_thread,  \* self._worker_thread
    aliased,         \* frames whose zone list object is held both by the
                     \* manager's dict and by the worker's dict
    worker_run,      \* where the worker's run() stands, progress calls left
    workers_running, \* threads currently inside ProcessingWorker.run
    app_queue,       \* worker signals queued for the GUI thread
    processing_enabled, \* sidebar.set_processing_enabled
    submit_call,     \* what the last _start_processing call did
    \* ---- the app's videos and their sidecar files ----
    sidecars,        \* per video path, what <path>.zones.json holds
    zones_owner      \* video_path at the time the stored zones were loaded
                     \* or their first one was drawn

vars == <<_keyframes, query_frame, zones_result, src_n, chunk_size, keyframes,
          pc, _cancelled, signals, cap_open, cap_pos, out_open, total_frames,
          model, frame_idx, frames_buffer, masks_buffer, processed, sink,
          temp_file, output_file, batches, model_calls, progress_calls,
          cancel_at, mux_result, ffmpeg_call, remove_call, mask_w, mask_h, mask_zones,
          mask_result, sidecar, saved, load_call, video, decoders_open,
          player_call, _processing, _worker, _worker_thread, aliased,
          worker_run, workers_running, app_queue, processing_enabled,
          submit_call, sidecars, zones_owner>>

timelineVars == <<_keyframes, query_frame, zones_result>>

jobVars == <<src_n, chunk_size, keyframes, pc, _cancelled, signals, cap_open,
             cap_pos, out_open, total_frames, model, frame_idx, frames_buffer,
             masks_buffer, processed, sink, temp_file, output_file, batches,
             model_calls, progress_calls, cancel_at, mux_result,
             ffmpeg_call>>

editVars == <<remove_call>>

maskVars == <<mask_w, mask_h, mask_zones, mask_result>>

persistVars == <<sidecar, saved, load_call>>

playerVars == <<video, decoders_open, player_call>>

appVars == <<_processing, _worker, _worker_thread, aliased, worker_run,
            workers_running, app_queue, processing_enabled, submit_call>>

loadVars == <<sidecars, zones_owner>>

\* the state of the components a specification leaves alone
extVars == <<editVars, maskVars, persistVars, playerVars, appVars, loadVars>>

(***************************************************************************)
(* Bounds                                                                  *)
(***************************************************************************)
MaxZones == 2      \* longest zone list per keyframe in SpecTimeline
MaxFrames == 3     \* longest source, in frames
MaxChunk == 3      \* largest chunk size
MaskWidth == 14    \* widest raster asked of create_mask_from_zones
MaskHeight == 2    \* tallest raster asked of create_mask_from_zones
ClipFrames == 3    \* frame count of the longest video the player opens
SrcWidth == 3      \* frame width of the source
SrcHeight == 2     \* frame height of the source

(***************************************************************************)
(* Zones                                                                   *)
(***************************************************************************)
ZoneA == <<0, 0, 1, 1>>
ZoneB == <<1, 0, 2, 2>>
\* a rectangle far right of the frame: its padded, clamped slice is empty
ZoneOut == <<12, 0, 13, 1>>

TimelineZones == {ZoneA, ZoneB}
TimelineFrames == {0, 9, 10}
QueryFrames == {-1, 0, 5, 9, 10, 15}

\* remove_call before any call of remove_zone
NoCall == [frame |-> -1, index |-> -1, ok |-> FALSE, called |-> FALSE]

\* no raster returned yet
NoMask == [made |-> FALSE, shape |-> <<0, 0>>, on |-> {}]

MaskIdle ==
    /\ mask_w = 0
    /\ mask_h = 0
    /\ mask_zones = <<>>
    /\ mask_result = NoMask

\* no sidecar file next to the video
NoSidecar == [kind |-> "missing", members |-> <<>>]

\* saved before any save_to_file, or once the sidecar has another writer
NothingSaved == [valid |-> FALSE, timeline |-> <<>>]

\* load_call before any call of load_from_file
NoLoad == [outcome |-> "none", dropped |-> FALSE]

PersistIdle ==
    /\ sidecar = NoSidecar
    /\ saved = NothingSaved
    /\ load_call = NoLoad

DefaultFps == 30   \* VideoPlayer.__init__: self.fps = 30.0

\* VideoPlayer.__init__
Unloaded ==
    [cap |-> "None", total_frames |-> 0, fps |-> DefaultFps, width |-> 0,
     height |-> 0, current_frame |-> 0, video_path |-> "None"]

\* player_call before any call
NoPlayerCall ==
    [op |-> "none", path |-> "", frame_num |-> 0, sought |-> -1, before |-> 0,
     ok |-> FALSE]

PlayerIdle ==
    /\ video = Unloaded
    /\ decoders_open = 0
    /\ player_call = NoPlayerCall

\* self._worker = None
NoWorker == [exists |-> FALSE, video_path |-> "None", keyframes |-> <<>>]

\* no thread has been handed a run() yet
NotRunning == [pc |-> "none", left |-> 0]

\* submit_call before any _start_processing
NoSubmit == [outcome |-> "none", busy |-> FALSE]

\* WatermarkRemoverApp.__init__
AppIdle ==
    /\ _processing = FALSE
    /\ _worker = NoWorker
    /\ _worker_thread = "None"
    /\ aliased = {}
    /\ worker_run = NotRunning
    /\ workers_running = 0
    /\ app_queue = <<>>
    /\ processing_enabled = TRUE
    /\ submit_call = NoSubmit

\* the videos the app is asked to open that do open
AppVideos == {"b.avi", "c.mkv"}

\* no sidecar next to any video, no zones stored
LoadIdle ==
    /\ sidecars = [path \in AppVideos |-> NoSidecar]
    /\ zones_owner = "None"

\* the components outside the specification at hand, as constructed
ExtIdle ==
    /\ remove_call = NoCall
    /\ MaskIdle
    /\ PersistIdle
    /\ PlayerIdle
    /\ AppIdle
    /\ LoadIdle

\* get_ffmpeg_path has not been called
NoLookup == [probes |-> <<>>, ret |-> "", raised |-> "not called"]

\* cancel_at before any call of ProcessingWorker.cancel
NoCancelYet == [pc |-> "", frame |-> 0, written |-> 0]

(***************************************************************************)
(* Python helpers                                                          *)
(***************************************************************************)
PyMax(a, b) == IF a >= b THEN a ELSE b

PyMin(a, b) == IF a <= b THEN a ELSE b

\* max(list) : the element no other element exceeds
MaxOf(S) == CHOOSE m \in S : \A k \in S : k <= m

\* list.pop(index) for 0 <= index < len(list), 0-based
PopAt(list, index) ==
    [i \in 1..(Len(list) - 1) |-> IF i <= index THEN list[i] ELSE list[i + 1]]

\* str(k) of a non-negative int, as its decimal digits
RECURSIVE PyStr(_)
PyStr(k) == IF k < 10 THEN <<k>> ELSE Append(PyStr(k \div 10), k % 10)

\* int(s) of a decimal digit string
RECURSIVE PyInt(_)
PyInt(s) ==
    IF Len(s) = 1 THEN s[1]
    ELSE 10 * PyInt(SubSeq(s, 1, Len(s) - 1)) + s[Len(s)]

(***************************************************************************)
(* KeyframeManager                                                         *)
(***************************************************************************)
is_empty(kf) == DOMAIN kf = {}

add_zone(kf, frame, zone) ==
    IF frame \notin DOMAIN kf
    THEN [f \in DOMAIN kf \cup {frame} |->
            IF f = frame THEN <<zone>> ELSE kf[f]]
    ELSE [kf EXCEPT ![frame] = Append(@, zone)]

\* the boolean remove_zone returns
remove_zone_ok(kf, frame, index) ==
    frame \in DOMAIN kf /\ 0 <= index /\ index < Len(kf[frame])

remove_zone_keeps_empty(kf, frame, index) ==
    IF remove_zone_ok(kf, frame, index)
    THEN [kf EXCEPT ![frame] = PopAt(kf[frame], index)]
    ELSE kf

\* the timeline after remove_zone
remove_zone(kf, frame, index) ==
    IF remove_zone_ok(kf, frame, index)
    THEN LET rest == PopAt(kf[frame], index)
         IN  IF rest = <<>>
             THEN [f \in DOMAIN kf \ {frame} |-> kf[f]]
             ELSE [kf EXCEPT ![frame] = rest]
    ELSE kf

remove_keyframe(kf, frame) ==
    IF frame \in DOMAIN kf
    THEN [f \in DOMAIN kf \ {frame} |-> kf[f]]
    ELSE kf

get_zones_at_frame_before(kf, frame) ==
    IF DOMAIN kf = {} THEN <<>>
    ELSE LET valid_keyframes == {k \in DOMAIN kf : k < frame}
         IN  IF valid_keyframes = {} THEN <<>>
             ELSE kf[MaxOf(valid_keyframes)]

get_zones_at_frame(kf, frame) ==
    IF DOMAIN kf = {} THEN <<>>
    ELSE LET valid_keyframes == {k \in DOMAIN kf : k <= frame}
         IN  IF valid_keyframes = {} THEN <<>>
             ELSE kf[MaxOf(valid_keyframes)]

\* sorted(keys)
RECURSIVE Sorted(_)
Sorted(S) ==
    IF S = {} THEN <<>>
    ELSE LET m == CHOOSE x \in S : \A y \in S : x <= y
         IN  <<m>> \o Sorted(S \ {m})

\* sorted(keys, reverse=True)
RECURSIVE SortedReverse(_)
SortedReverse(S) ==
    IF S = {} THEN <<>>
    ELSE LET m == MaxOf(S)
         IN  <<m>> \o SortedReverse(S \ {m})

get_all_keyframe_numbers_Descending(kf) == SortedReverse(DOMAIN kf)

get_all_keyframe_numbers(kf) == Sorted(DOMAIN kf)

clear(kf) == <<>>

to_dict(kf) ==
    [s \in {PyStr(k) : k \in DOMAIN kf} |->
        kf[CHOOSE k \in DOMAIN kf : PyStr(k) = s]]

\* a character of a key that is no decimal digit (digits are 0..9)
Letter == -1

\* int(s) returns for the key s; otherwise it raises ValueError
IsDecimal(s) == Len(s) > 0 /\ \A i \in 1..Len(s) : s[i] \in 0..9

\* {int(k): v for k, v in data.items()}, when no int(k) raises
from_dict(data) ==
    [k \in {PyInt(s) : s \in DOMAIN data} |->
        data[CHOOSE s \in DOMAIN data : PyInt(s) = k]]

(***************************************************************************)
(* Frames and masks                                                        *)
(***************************************************************************)
Pad == 8           \* create_mask_from_zones: pad
KernelRadius == 2  \* np.ones((5, 5)): two pixels each side of the anchor
DilateIterations == 2

\* the i-th frame cap.read() decodes (0-based), in OpenCV's BGR layout
SourceFrame(i) == [idx |-> i, layout |-> "BGR", px |-> "src"]

\* cv2.cvtColor with COLOR_BGR2RGB or COLOR_RGB2BGR: both swap channels 0 and 2
cvtColor(frame) ==
    [frame EXCEPT !.layout = IF @ = "BGR" THEN "RGB" ELSE "BGR"]

Pixels(width, height) == (0..(width - 1)) \X (0..(height - 1))

\* the indices a Python slice lo:hi selects on an axis of length n
PySlice(lo, hi, n) ==
    LET norm(v) == IF v < 0 THEN PyMax(v + n, 0) ELSE PyMin(v, n)
    IN  norm(lo)..(norm(hi) - 1)

\* one iteration of cv2.dilate with a square kernel anchored at its centre
Dilate(mask, width, height) ==
    {p \in Pixels(width, height) :
        \E q \in mask : /\ p[1] - q[1] \in -KernelRadius..KernelRadius
                        /\ p[2] - q[2] \in -KernelRadius..KernelRadius}

RECURSIVE DilateN(_, _, _, _)
DilateN(mask, width, height, n) ==
    IF n = 0 THEN mask
    ELSE DilateN(Dilate(mask, width, height), width, height, n - 1)

\* shape of np.zeros((height, width)); cv2.dilate keeps it
RasterShape(width, height) == <<height, width>>

ZoneFill_NoPad(width, height, zone) ==
    (PyMax(0, zone[1])..(PyMin(width, zone[3]) - 1))
        \X (PyMax(0, zone[2])..(PyMin(height, zone[4]) - 1))

\* the rectangle mask[y1:y2, x1:x2] = 255 fills for one zone
ZoneFill(width, height, zone) ==
    LET x1 == PyMax(0, zone[1] - Pad)
        y1 == PyMax(0, zone[2] - Pad)
        x2 == PyMin(width, zone[3] + Pad)
        y2 == PyMin(height, zone[4] + Pad)
    IN  PySlice(x1, x2, width) \X PySlice(y1, y2, height)

create_mask_from_zones(width, height, zones) ==
    DilateN(UNION {ZoneFill(width, height, zones[i]) : i \in 1..Len(zones)},
            width, height, DilateIterations)

\* np.zeros((height, width))
ZeroMask == {}

\* np.any(mask > 0)
MaskAny(mask) == mask # {}

\* s <= t for Python strings of digits: character by character, a proper
\* prefix first
RECURSIVE StrLeq(_, _)
StrLeq(s, t) ==
    IF s = <<>> THEN TRUE
    ELSE IF t = <<>> THEN FALSE
    ELSE IF Head(s) # Head(t) THEN Head(s) < Head(t)
    ELSE StrLeq(Tail(s), Tail(t))

\* the lookup comparing the keys as the strings they are
proc_get_zones_at_frame_Lexicographic(kfs, frame_num) ==
    IF DOMAIN kfs = {} \/ frame_num < 0 THEN <<>>
    ELSE LET valid_keyframes == {s \in DOMAIN kfs : StrLeq(s, PyStr(frame_num))}
         IN  IF valid_keyframes = {} THEN <<>>
             ELSE kfs[CHOOSE m \in valid_keyframes :
                         \A s \in valid_keyframes : StrLeq(s, m)]

\* processor.get_zones_at_frame on the worker's dict of digit-string keys
proc_get_zones_at_frame(kfs, frame_num) ==
    IF DOMAIN kfs = {} THEN <<>>
    ELSE LET kf_dict == [k \in {PyInt(s) : s \in DOMAIN kfs} |->
                            kfs[CHOOSE s \in DOMAIN kfs : PyInt(s) = k]]
             valid_keyframes == {k \in DOMAIN kf_dict : k <= frame_num}
         IN  IF valid_keyframes = {} THEN <<>>
             ELSE kf_dict[MaxOf(valid_keyframes)]

\* the mask process_video computes for frame frame_num
FrameMask(kfs, frame_num) ==
    LET zones == proc_get_zones_at_frame(kfs, frame_num)
    IN  IF zones # <<>>
        THEN create_mask_from_zones(SrcWidth, SrcHeight, zones)
        ELSE ZeroMask

\* self.model(frame, mask): the frame with the masked region reconstructed
ModelOutput(frame) == [frame EXCEPT !.px = "lama"]

\* LamaInpainter.inpaint_frame: [result, called]
inpaint_frame(frame, mask, mdl) ==
    IF ~MaskAny(mask) \/ mdl = "None"
    THEN [result |-> frame, called |-> FALSE]
    ELSE [result |-> ModelOutput(frame), called |-> TRUE]

LamaProcessVideo_NoSkip(frames, masks, mdl) ==
    [i \in 1..PyMin(Len(frames), Len(masks)) |->
        [result |-> ModelOutput(frames[i]), called |-> TRUE]]

\* LamaInpainter.process_video: per zipped pair, [result, called]
LamaProcessVideo(frames, masks, mdl) ==
    [i \in 1..PyMin(Len(frames), Len(masks)) |->
        IF MaskAny(masks[i])
        THEN inpaint_frame(frames[i], masks[i], mdl)
        ELSE [result |-> frames[i], called |-> FALSE]]

ChunkFull_OffByOne(buffer, size) == Len(buffer) > size

\* if len(frames_buffer) >= chunk_size
ChunkFull(buffer, size) == Len(buffer) >= size

\* ---- SpecTimeline actions ----
AddZone ==
    \E frame \in TimelineFrames, zone \in TimelineZones :
        /\ frame \in DOMAIN _keyframes => Len(_keyframes[frame]) < MaxZones
        /\ _keyframes' = add_zone(_keyframes, frame, zone)
        /\ UNCHANGED <<query_frame, zones_result>>
        /\ UNCHANGED <<jobVars, extVars>>

RemoveZone ==
    \E frame \in TimelineFrames, index \in -1..MaxZones :
        /\ _keyframes' = remove_zone(_keyframes, frame, index)
        /\ UNCHANGED <<query_frame, zones_result>>
        /\ UNCHANGED <<jobVars, extVars>>

RemoveKeyframe ==
    \E frame \in TimelineFrames :
        /\ _keyframes' = remove_keyframe(_keyframes, frame)
        /\ UNCHANGED <<query_frame, zones_result>>
        /\ UNCHANGED <<jobVars, extVars>>

Clear ==
    /\ _keyframes' = clear(_keyframes)
    /\ UNCHANGED <<query_frame, zones_result>>
    /\ UNCHANGED <<jobVars, extVars>>

GetZonesAtFrame ==
    \E frame \in QueryFrames :
        /\ query_frame' = frame
        /\ zones_result' = get_zones_at_frame(_keyframes, frame)
        /\ UNCHANGED _keyframes
        /\ UNCHANGED <<jobVars, extVars>>

JobIdle ==
    /\ src_n = 0
    /\ chunk_size = 1
    /\ keyframes = <<>>
    /\ pc = "idle"
    /\ _cancelled = FALSE
    /\ signals = <<>>
    /\ cap_open = FALSE
    /\ cap_pos = 0
    /\ out_open = FALSE
    /\ total_frames = 0
    /\ model = "None"
    /\ frame_idx = 0
    /\ frames_buffer = <<>>
    /\ masks_buffer = <<>>
    /\ processed = <<>>
    /\ sink = <<>>
    /\ temp_file = "absent"
    /\ output_file = "absent"
    /\ batches = <<>>
    /\ model_calls = <<>>
    /\ progress_calls = <<>>
    /\ cancel_at = NoCancelYet
    /\ mux_result = "none"
    /\ ffmpeg_call = NoLookup

InitTimeline ==
    /\ _keyframes = <<>>
    /\ query_frame = 0
    /\ zones_result = <<>>
    /\ JobIdle
    /\ ExtIdle

NextTimeline ==
    \/ AddZone
    \/ RemoveZone
    \/ RemoveKeyframe
    \/ Clear
    \/ GetZonesAtFrame

SpecTimeline == InitTimeline /\ [][NextTimeline]_vars

(***************************************************************************)
(* SpecMask: create_mask_from_zones called on drawn arguments              *)
(***************************************************************************)
\* coordinates tried on an axis of length n: both ends and their neighbours
AxisCoords(n) == {0, 1, n - 1, n} \cap (0..n)

\* the zones of a width x height frame that satisfy the Zone invariant
ValidZones(width, height) ==
    {z \in AxisCoords(width) \X AxisCoords(height)
            \X AxisCoords(width) \X AxisCoords(height) :
        z[1] < z[3] /\ z[2] < z[4]}

\* zone lists that break the Zone invariant: outside the frame, negative
\* coordinates, inverted corners
StrayZoneLists ==
    {<<ZoneOut>>, <<<<-20, 0, -10, 1>>>>, <<<<1, 1, 0, 0>>>>,
     <<<<-20, 0, -10, 1>>, ZoneOut>>}

MaskZoneLists(width, height) ==
    {<<>>} \cup {<<z>> : z \in ValidZones(width, height)}
           \cup (ValidZones(width, height) \X ValidZones(width, height))
           \cup StrayZoneLists

InitMask ==
    /\ _keyframes = <<>>
    /\ query_frame = 0
    /\ zones_result = <<>>
    /\ JobIdle
    /\ remove_call = NoCall
    /\ PersistIdle
    /\ PlayerIdle
    /\ AppIdle
    /\ LoadIdle
    /\ mask_w \in {1, MaskWidth}
    /\ mask_h \in {1, MaskHeight}
    /\ mask_zones \in MaskZoneLists(mask_w, mask_h)
    /\ mask_result = NoMask

\* mask = create_mask_from_zones(width, height, zones)
CreateMask ==
    /\ ~mask_result.made
    /\ mask_result' =
          [made |-> TRUE,
           shape |-> RasterShape(mask_w, mask_h),
           on |-> create_mask_from_zones(mask_w, mask_h, mask_zones)]
    /\ UNCHANGED <<mask_w, mask_h, mask_zones>>
    /\ UNCHANGED <<timelineVars, jobVars, editVars, persistVars, playerVars>>
    /\ UNCHANGED appVars
    /\ UNCHANGED loadVars

NextMask == CreateMask

SpecMask == InitMask /\ [][NextMask]_vars

\* the zone list satisfies the Zone invariant for the frame
ZonesValid(width, height, zones) ==
    \A i \in 1..Len(zones) :
        /\ 0 <= zones[i][1] /\ zones[i][1] < zones[i][3] /\ zones[i][3] <= width
        /\ 0 <= zones[i][2] /\ zones[i][2] < zones[i][4] /\ zones[i][4] <= height

\* C19: create_mask_from_zones(width, height, zones) returns a raster of
\* exactly height rows by width columns; for zone lists satisfying the Zone
\* invariant the raster is all-zero iff the zone list is empty, and every
\* pixel of each zone's rectangle expanded by 8 and clamped to the frame is
\* set in it.
C19_MaskShapeAndCoverage ==
    mask_result.made =>
        /\ mask_result.shape = <<mask_h, mask_w>>
        /\ \A p \in mask_result.on :
              /\ p[1] \in 0..(mask_w - 1)
              /\ p[2] \in 0..(mask_h - 1)
        /\ ZonesValid(mask_w, mask_h, mask_zones) =>
              /\ (mask_result.on = {}) <=> (mask_zones = <<>>)
              /\ \A i \in 1..Len(mask_zones) :
                    \A x \in 0..(mask_w - 1), y \in 0..(mask_h - 1) :
                        ( /\ mask_zones[i][1] - 8 <= x
                          /\ x < mask_zones[i][3] + 8
                          /\ mask_zones[i][2] - 8 <= y
                          /\ y < mask_zones[i][4] + 8 )
                        => <<x, y>> \in mask_result.on

C19_Witness ==
    /\ mask_result.made
    /\ mask_w = MaskWidth
    /\ mask_zones = <<<<0, 0, 1, 1>>>>
    /\ <<8, 0>> \in mask_result.on
    /\ <<MaskWidth - 1, 0>> \notin mask_result.on

(***************************************************************************)
(* SpecPersist: one manager, its sidecar file, and whoever else writes it  *)
(***************************************************************************)
EditKeyframes == {0, 10}

\* sidecar contents no save_to_file wrote: text that is no JSON, a file
\* open() refuses, a JSON array, JSON objects with a key int() rejects
ForeignSidecars ==
    {[kind |-> "garbage", members |-> <<>>],
     [kind |-> "unreadable", members |-> <<>>],
     [kind |-> "array", members |-> <<>>],
     [kind |-> "object", members |-> (<<Letter>> :> <<ZoneA>>)],
     [kind |-> "object",
      members |-> (<<0>> :> <<ZoneA>> @@ <<1, Letter>> :> <<ZoneB>>)]}

\* add_zone(frame, zone) on the two keyframes of the editing specifications
EditAddZone ==
    \E frame \in EditKeyframes, zone \in TimelineZones :
        /\ frame \in DOMAIN _keyframes => Len(_keyframes[frame]) < MaxZones
        /\ _keyframes' = add_zone(_keyframes, frame, zone)
        /\ UNCHANGED <<query_frame, zones_result>>
        /\ UNCHANGED <<jobVars, extVars>>

\* json.dump(self.to_dict(), f): the file holds a JSON object whose member
\* names are the keys of to_dict and whose values are arrays of 4-arrays
SaveToFile ==
    /\ sidecar' = [kind |-> "object", members |-> to_dict(_keyframes)]
    /\ saved' = [valid |-> TRUE, timeline |-> _keyframes]
    /\ UNCHANGED load_call
    /\ UNCHANGED <<timelineVars, jobVars, editVars, maskVars, playerVars>>
    /\ UNCHANGED appVars
    /\ UNCHANGED loadVars

\* another program writes or deletes the sidecar
ForeignWrite ==
    /\ sidecar' \in ForeignSidecars \cup {NoSidecar}
    /\ saved' = NothingSaved
    /\ UNCHANGED load_call
    /\ UNCHANGED <<timelineVars, jobVars, editVars, maskVars, playerVars>>
    /\ UNCHANGED appVars
    /\ UNCHANGED loadVars

LoadFromFile_Merge ==
    /\ sidecar.kind = "object"
    /\ \A s \in DOMAIN sidecar.members : IsDecimal(s)
    /\ _keyframes' = from_dict(sidecar.members) @@ _keyframes
    /\ load_call' = [outcome |-> "true", dropped |-> FALSE]
    /\ UNCHANGED <<sidecar, saved>>
    /\ UNCHANGED <<query_frame, zones_result>>
    /\ UNCHANGED <<jobVars, editVars, maskVars, playerVars>>
    /\ UNCHANGED appVars
    /\ UNCHANGED loadVars

\* ok = load_from_file(video_path)
LoadFromFile ==
    /\ IF sidecar.kind = "missing"
       THEN \* Path(zones_path).exists() is false
            /\ load_call' = [outcome |-> "false", dropped |-> FALSE]
            /\ UNCHANGED _keyframes
       ELSE IF sidecar.kind \in {"unreadable", "garbage"}
       THEN \* IOError from open, JSONDecodeError from json.load: pass
            /\ load_call' = [outcome |-> "false", dropped |-> FALSE]
            /\ UNCHANGED _keyframes
       ELSE IF sidecar.kind = "array"
       THEN \* data.items() raises AttributeError, which no clause catches
            /\ load_call' = [outcome |-> "raised", dropped |-> FALSE]
            /\ UNCHANGED _keyframes
       ELSE IF \E s \in DOMAIN sidecar.members : ~IsDecimal(s)
       THEN \* int(k) raises ValueError, which no clause catches
            /\ load_call' = [outcome |-> "raised", dropped |-> FALSE]
            /\ UNCHANGED _keyframes
       ELSE /\ _keyframes' = from_dict(sidecar.members)
            /\ load_call' =
                  [outcome |-> "true",
                   dropped |-> DOMAIN _keyframes \ DOMAIN _keyframes' # {}]
    /\ UNCHANGED <<sidecar, saved>>
    /\ UNCHANGED <<query_frame, zones_result>>
    /\ UNCHANGED <<jobVars, editVars, maskVars, playerVars>>
    /\ UNCHANGED appVars
    /\ UNCHANGED loadVars

NextPersist ==
    \/ EditAddZone
    \/ RemoveKeyframe
    \/ Clear
    \/ SaveToFile
    \/ ForeignWrite
    \/ LoadFromFile

SpecPersist == InitTimeline /\ [][NextPersist]_vars

NotLoadable(sc) ==
    \/ sc.kind \in {"missing", "garbage", "array"}
    \/ sc.kind = "object" /\ \E s \in DOMAIN sc.members : ~IsDecimal(s)

\* C17: load_from_file on a missing sidecar, on one that is not valid JSON,
\* and on valid JSON that is no conforming document returns false, leaves the
\* in-memory timeline exactly as it was, and never raises to the caller.
C17_LoadFailureIsQuiet ==
    [][(LoadFromFile /\ NotLoadable(sidecar)) =>
          /\ load_call'.outcome = "false"
          /\ _keyframes' = _keyframes]_vars

(***************************************************************************)
(* SpecPlayer: one VideoPlayer and the files it is asked to open           *)
(***************************************************************************)
\* what cv2.VideoCapture reports for the files that open: frame count, fps
\* (0 when the container reports none), width, height
Videos ==
    ("a.mp4" :> [total_frames |-> ClipFrames, fps |-> 25, width |-> 4,
                 height |-> 2]
     @@ "b.avi" :> [total_frames |-> 1, fps |-> 0, width |-> 2,
                    height |-> 3]
     @@ "c.mkv" :> [total_frames |-> 2, fps |-> 24, width |-> 3,
                    height |-> 3])

\* paths load is called with; "gone.mp4" does not open
LoadPaths == DOMAIN Videos \cup {"gone.mp4"}

is_loaded(v) == v.cap = "opened"

\* VideoPlayer.release: any VideoCapture object is truthy, opened or not
release(v) ==
    IF v.cap # "None"
    THEN [v EXCEPT !.cap = "None", !.video_path = "None",
                   !.total_frames = 0, !.current_frame = 0]
    ELSE v

\* decoder handles open once cap.release() has run on v.cap
AfterRelease(v, open) == IF v.cap = "opened" THEN open - 1 ELSE open

\* the player after load(path); load returns path \in DOMAIN Videos
load(v, path) ==
    IF path \in DOMAIN Videos
    THEN [cap |-> "opened",
          video_path |-> path,
          total_frames |-> Videos[path].total_frames,
          fps |-> IF Videos[path].fps # 0
                  THEN Videos[path].fps ELSE DefaultFps,
          width |-> Videos[path].width,
          height |-> Videos[path].height,
          current_frame |-> 0]
    ELSE \* not self.cap.isOpened(): return False
         [release(v) EXCEPT !.cap = "unopened"]

\* decoder handles open after load(path)
AfterLoad(v, open, path) ==
    AfterRelease(v, open) + (IF path \in DOMAIN Videos THEN 1 ELSE 0)

\* ok = self.video.load(path)
VideoLoad ==
    \E path \in LoadPaths :
            /\ video' = load(video, path)
            /\ decoders_open' = AfterLoad(video, decoders_open, path)
            /\ player_call' = [op |-> "load", path |-> path, frame_num |-> 0,
                               sought |-> -1, before |-> video.current_frame,
                               ok |-> path \in DOMAIN Videos]
            /\ UNCHANGED <<timelineVars, jobVars, editVars, maskVars,
                           persistVars>>
            /\ UNCHANGED appVars
            /\ UNCHANGED loadVars

\* self.video.release()
VideoRelease ==
    /\ video' = release(video)
    /\ decoders_open' = AfterRelease(video, decoders_open)
    /\ player_call' = [op |-> "release", path |-> "", frame_num |-> 0,
                       sought |-> -1, before |-> video.current_frame,
                       ok |-> TRUE]
    /\ UNCHANGED <<timelineVars, jobVars, editVars, maskVars, persistVars>>
    /\ UNCHANGED appVars
    /\ UNCHANGED loadVars

ClampFrame_NoFloor(v, frame_num) == PyMin(frame_num, v.total_frames - 1)

\* frame_num = max(0, min(frame_num, self.total_frames - 1))
ClampFrame(v, frame_num) == PyMax(0, PyMin(frame_num, v.total_frames - 1))

\* the player after get_frame(frame_num); ret is what cap.read() reports
get_frame(v, frame_num, ret) ==
    IF is_loaded(v) /\ ret
    THEN [v EXCEPT !.current_frame = ClampFrame(v, frame_num)]
    ELSE v

\* what a call ending in get_frame(frame_num) leaves in player_call: the
\* index handed to cap.set, the cursor before the call, whether a frame
\* came back
FrameCall(v, op, frame_num, ret) ==
    [op |-> op, path |-> "", frame_num |-> frame_num,
     sought |-> IF is_loaded(v) THEN ClampFrame(v, frame_num) ELSE -1,
     before |-> v.current_frame,
     ok |-> is_loaded(v) /\ ret]

\* frame = self.video.get_frame(frame_num)
VideoGetFrame ==
    \E frame_num \in -1..(ClipFrames + 1), ret \in BOOLEAN :
        /\ video' = get_frame(video, frame_num, ret)
        /\ player_call' = FrameCall(video, "get_frame", frame_num, ret)
        /\ UNCHANGED decoders_open
        /\ UNCHANGED <<timelineVars, jobVars, editVars, maskVars, persistVars>>
        /\ UNCHANGED appVars
        /\ UNCHANGED loadVars

\* self.get_frame(self.current_frame + 1)
VideoNextFrame ==
    \E ret \in BOOLEAN :
        /\ video' = get_frame(video, video.current_frame + 1, ret)
        /\ player_call' =
              FrameCall(video, "next_frame", video.current_frame + 1, ret)
        /\ UNCHANGED decoders_open
        /\ UNCHANGED <<timelineVars, jobVars, editVars, maskVars, persistVars>>
        /\ UNCHANGED appVars
        /\ UNCHANGED loadVars

\* self.get_frame(self.current_frame - 1)
VideoPreviousFrame ==
    \E ret \in BOOLEAN :
        /\ video' = get_frame(video, video.current_frame - 1, ret)
        /\ player_call' =
              FrameCall(video, "previous_frame", video.current_frame - 1, ret)
        /\ UNCHANGED decoders_open
        /\ UNCHANGED <<timelineVars, jobVars, editVars, maskVars, persistVars>>
        /\ UNCHANGED appVars
        /\ UNCHANGED loadVars

\* deltas jump_frames is called with: short and beyond either end
JumpDeltas == {-(ClipFrames + 1), -2, 2, ClipFrames + 1}

\* self.get_frame(self.current_frame + delta)
VideoJumpFrames ==
    \E delta \in JumpDeltas, ret \in BOOLEAN :
        /\ video' = get_frame(video, video.current_frame + delta, ret)
        /\ player_call' =
              FrameCall(video, "jump_frames", video.current_frame + delta, ret)
        /\ UNCHANGED decoders_open
        /\ UNCHANGED <<timelineVars, jobVars, editVars, maskVars, persistVars>>
        /\ UNCHANGED appVars
        /\ UNCHANGED loadVars

NextPlayer ==
    \/ VideoLoad
    \/ VideoRelease
    \/ VideoGetFrame
    \/ VideoNextFrame
    \/ VideoPreviousFrame
    \/ VideoJumpFrames

SpecPlayer == InitTimeline /\ [][NextPlayer]_vars

\* C20: VideoPlayer.load releases any previously open decoder handle before
\* opening the new one, so at most one handle is open at any time; when
\* opening fails it returns false without partial state: is_loaded is false,
\* no decoder handle is held, and video_path, total_frames, width, height,
\* fps and current_frame hold their unloaded defaults.
C20_LoadReleasesAndFailsClean ==
    /\ decoders_open <= 1
    /\ (player_call.op = "load" /\ ~player_call.ok) =>
          /\ ~is_loaded(video)
          /\ decoders_open = 0
          /\ video.video_path = Unloaded.video_path
          /\ video.total_frames = Unloaded.total_frames
          /\ video.width = Unloaded.width
          /\ video.height = Unloaded.height
          /\ video.fps = Unloaded.fps
          /\ video.current_frame = Unloaded.current_frame

FrameCalls == {"get_frame", "next_frame", "previous_frame", "jump_frames"}

\* C21: for a loaded video with total >= 1 frames and any sequence of
\* get_frame / next_frame / previous_frame / jump_frames calls, the frame
\* sought is clamp(requested, 0, total-1); after a successful decode the
\* cursor equals that index, after a failed decode nothing is returned and
\* the cursor is unchanged; current_frame stays within [0, total-1].
C21_SeekClampsAndCursor ==
    LET total == video.total_frames
        requested == player_call.frame_num
        clamped == IF requested < 0 THEN 0
                   ELSE IF requested > total - 1 THEN total - 1
                   ELSE requested
    IN  (is_loaded(video) /\ total >= 1) =>
            /\ video.current_frame \in 0..(total - 1)
            /\ player_call.op \in FrameCalls =>
                  /\ player_call.sought = clamped
                  /\ player_call.ok => video.current_frame = clamped
                  /\ ~player_call.ok =>
                        video.current_frame = player_call.before

C21_Witness ==
    /\ is_loaded(video)
    /\ video.total_frames = ClipFrames
    /\ player_call.op = "jump_frames"
    /\ player_call.frame_num < 0
    /\ player_call.ok
    /\ player_call.before = 1
    /\ video.current_frame = 0

(***************************************************************************)
(* SpecApp: WatermarkRemoverApp handlers on the GUI thread, one worker     *)
(* thread, and the queued signals between them                             *)
(***************************************************************************)
AppPaths == AppVideos \cup {"gone.mp4"}

AppZones == {ZoneA}

\* the variables of the app no handler of the worker's life cycle touches
appRest == <<jobVars, editVars, maskVars, persistVars>>

\* load_from_file returns True on this sidecar
Loadable(sc) ==
    sc.kind = "object" /\ \A s \in DOMAIN sc.members : IsDecimal(s)

\* whose zones the timeline kf holds: nobody's while it is empty
OwnerAfter(kf, owner, path) == IF is_empty(kf) THEN path ELSE owner

\* _load_video(path)
LoadVideo ==
    \E path \in AppPaths :
        /\ video' = load(video, path)
        /\ decoders_open' = AfterLoad(video, decoders_open, path)
        /\ IF path \in DOMAIN Videos
           THEN \* keyframes.clear(), then load_from_file: a new dict when the
                \* sidecar loads, the cleared one when it returns False or
                \* raises
                /\ _keyframes' =
                      IF Loadable(sidecars[path])
                      THEN from_dict(sidecars[path].members)
                      ELSE <<>>
                /\ aliased' = {}
                /\ zones_owner' = path
           ELSE /\ UNCHANGED <<_keyframes, aliased>>
                /\ zones_owner' = OwnerAfter(_keyframes, zones_owner, "None")
        /\ UNCHANGED sidecars
        /\ UNCHANGED <<query_frame, zones_result, player_call>>
        /\ UNCHANGED <<_processing, _worker, _worker_thread, worker_run,
                       workers_running, app_queue, processing_enabled,
                       submit_call>>
        /\ UNCHANGED appRest

\* _on_frame_change(frame) / _jump_to_keyframe(frame): _update_display
SeekFrame ==
    \E frame \in 0..ClipFrames, ret \in BOOLEAN :
        /\ is_loaded(video)
        /\ video' = IF ret
                    THEN [video EXCEPT !.current_frame = ClampFrame(video, frame)]
                    ELSE video
        /\ UNCHANGED <<decoders_open, player_call>>
        /\ UNCHANGED <<timelineVars, appVars, appRest, loadVars>>

\* _on_zone_drawn(zone): add_zone appends to the list object in place, so a
\* list the worker's dict also holds grows there as well
DrawZone ==
    \E zone \in AppZones :
        LET frame == video.current_frame
        IN  /\ frame \in DOMAIN _keyframes =>
                  Len(_keyframes[frame]) < MaxZones
            /\ _keyframes' = add_zone(_keyframes, frame, zone)
            /\ _worker' =
                  IF frame \in aliased
                  THEN [_worker EXCEPT
                            !.keyframes[PyStr(frame)] = Append(@, zone)]
                  ELSE _worker
            /\ UNCHANGED <<query_frame, zones_result>>
            /\ UNCHANGED <<_processing, _worker_thread, aliased, worker_run,
                           workers_running, app_queue, processing_enabled,
                           submit_call>>
            /\ zones_owner' =
                  OwnerAfter(_keyframes, zones_owner, video.video_path)
            /\ UNCHANGED sidecars
            /\ UNCHANGED <<playerVars, appRest>>

\* _clear_keyframes, confirmed: self._keyframes.clear() empties the manager's
\* dict, the list objects stay with the worker's dict
ClearKeyframes ==
    /\ ~is_empty(_keyframes)
    /\ _keyframes' = clear(_keyframes)
    /\ aliased' = {}
    /\ zones_owner' = video.video_path
    /\ UNCHANGED sidecars
    /\ UNCHANGED <<query_frame, zones_result>>
    /\ UNCHANGED <<_processing, _worker, _worker_thread, worker_run,
                   workers_running, app_queue, processing_enabled, submit_call>>
    /\ UNCHANGED <<playerVars, appRest>>

StartProcessing_NoGuard ==
    /\ IF video.video_path = "None"
       THEN /\ submit_call' = [outcome |-> "no_video", busy |-> _processing]
            /\ UNCHANGED <<_processing, _worker, _worker_thread, aliased,
                           worker_run, processing_enabled>>
       ELSE IF is_empty(_keyframes)
       THEN /\ submit_call' = [outcome |-> "no_zones", busy |-> _processing]
            /\ UNCHANGED <<_processing, _worker, _worker_thread, aliased,
                           worker_run, processing_enabled>>
       ELSE /\ submit_call' = [outcome |-> "accepted", busy |-> _processing]
            /\ _processing' = TRUE
            /\ processing_enabled' = FALSE
            /\ _worker' = [exists |-> TRUE, video_path |-> video.video_path,
                           keyframes |-> to_dict(_keyframes)]
            /\ aliased' = DOMAIN _keyframes
            /\ _worker_thread' = "started"
            /\ worker_run' =
                  [pc |-> "queued",
                   left |-> Videos[video.video_path].total_frames]
    /\ UNCHANGED <<workers_running, app_queue>>
    /\ UNCHANGED <<timelineVars, playerVars, appRest, loadVars>>

\* _start_processing: the three early returns in the order of the code, then
\* the worker is built on self.keyframes.to_dict(), whose values are the
\* manager's own list objects
StartProcessing ==
    /\ IF video.video_path = "None"
       THEN /\ submit_call' = [outcome |-> "no_video", busy |-> _processing]
            /\ UNCHANGED <<_processing, _worker, _worker_thread, aliased,
                           worker_run, processing_enabled>>
       ELSE IF is_empty(_keyframes)
       THEN /\ submit_call' = [outcome |-> "no_zones", busy |-> _processing]
            /\ UNCHANGED <<_processing, _worker, _worker_thread, aliased,
                           worker_run, processing_enabled>>
       ELSE IF _processing
       THEN /\ submit_call' = [outcome |-> "busy", busy |-> TRUE]
            /\ UNCHANGED <<_processing, _worker, _worker_thread, aliased,
                           worker_run, processing_enabled>>
       ELSE /\ submit_call' = [outcome |-> "accepted", busy |-> FALSE]
            /\ _processing' = TRUE
            /\ processing_enabled' = FALSE
            /\ _worker' = [exists |-> TRUE, video_path |-> video.video_path,
                           keyframes |-> to_dict(_keyframes)]
            /\ aliased' = DOMAIN _keyframes
            /\ _worker_thread' = "started"
            /\ worker_run' =
                  [pc |-> "queued",
                   left |-> Videos[video.video_path].total_frames]
    /\ UNCHANGED <<workers_running, app_queue>>
    /\ UNCHANGED <<timelineVars, playerVars, appRest, loadVars>>

\* the thread's started signal calls ProcessingWorker.run
ThreadStarted ==
    /\ worker_run.pc = "queued"
    /\ worker_run' = [worker_run EXCEPT !.pc = "running"]
    /\ workers_running' = workers_running + 1
    /\ UNCHANGED <<_processing, _worker, _worker_thread, aliased, app_queue,
                   processing_enabled, submit_call>>
    /\ UNCHANGED <<timelineVars, playerVars, appRest, loadVars>>

\* progress_callback: self.progress.emit(current, total), once per frame
EmitProgress ==
    /\ worker_run.pc = "running"
    /\ worker_run.left > 0
    /\ worker_run' = [worker_run EXCEPT !.left = @ - 1]
    /\ app_queue' = Append(app_queue, "progress")
    /\ UNCHANGED <<_processing, _worker, _worker_thread, aliased,
                   workers_running, processing_enabled, submit_call>>
    /\ UNCHANGED <<timelineVars, playerVars, appRest, loadVars>>

\* run: self.finished.emit once process_video returned, self.error.emit from
\* any of the except clauses
EmitTerminal ==
    \E signal \in {"finished", "error"} :
        /\ worker_run.pc = "running"
        /\ signal = "finished" => worker_run.left = 0
        /\ worker_run' = [worker_run EXCEPT !.pc = "emitted"]
        /\ app_queue' = Append(app_queue, signal)
        /\ UNCHANGED <<_processing, _worker, _worker_thread, aliased,
                       workers_running, processing_enabled, submit_call>>
        /\ UNCHANGED <<timelineVars, playerVars, appRest, loadVars>>

\* run returns
RunReturns ==
    /\ worker_run.pc = "emitted"
    /\ worker_run' = [worker_run EXCEPT !.pc = "returned"]
    /\ workers_running' = workers_running - 1
    /\ UNCHANGED <<_processing, _worker, _worker_thread, aliased, app_queue,
                   processing_enabled, submit_call>>
    /\ UNCHANGED <<timelineVars, playerVars, appRest, loadVars>>

\* _on_processing_progress
OnProcessingProgress ==
    /\ app_queue # <<>>
    /\ Head(app_queue) = "progress"
    /\ app_queue' = Tail(app_queue)
    /\ UNCHANGED <<_processing, _worker, _worker_thread, aliased, worker_run,
                   workers_running, processing_enabled, submit_call>>
    /\ UNCHANGED <<timelineVars, playerVars, appRest, loadVars>>

\* _cleanup_worker, then the flag and the controls: what both terminal
\* handlers do; _worker_thread.wait() returns once run has returned
CleanupAndRelease ==
    /\ worker_run.pc = "returned"
    /\ app_queue' = Tail(app_queue)
    /\ _worker_thread' = "None"
    /\ _worker' = NoWorker
    /\ aliased' = {}
    /\ worker_run' = NotRunning
    /\ _processing' = FALSE
    /\ processing_enabled' = TRUE
    /\ UNCHANGED <<workers_running, submit_call>>
    /\ UNCHANGED <<timelineVars, playerVars, appRest, loadVars>>

\* _on_processing_finished
OnProcessingFinished ==
    /\ app_queue # <<>>
    /\ Head(app_queue) = "finished"
    /\ CleanupAndRelease

\* the error handler leaving the flag set
OnProcessingError_KeepsFlag ==
    /\ app_queue # <<>>
    /\ Head(app_queue) = "error"
    /\ worker_run.pc = "returned"
    /\ app_queue' = Tail(app_queue)
    /\ _worker_thread' = "None"
    /\ _worker' = NoWorker
    /\ aliased' = {}
    /\ worker_run' = NotRunning
    /\ processing_enabled' = TRUE
    /\ UNCHANGED <<_processing, workers_running, submit_call>>
    /\ UNCHANGED <<timelineVars, playerVars, appRest, loadVars>>

\* _on_processing_error
OnProcessingError ==
    /\ app_queue # <<>>
    /\ Head(app_queue) = "error"
    /\ CleanupAndRelease

NextApp ==
    \/ LoadVideo
    \/ SeekFrame
    \/ DrawZone
    \/ ClearKeyframes
    \/ StartProcessing
    \/ ThreadStarted
    \/ EmitProgress
    \/ EmitTerminal
    \/ RunReturns
    \/ OnProcessingProgress
    \/ OnProcessingFinished
    \/ OnProcessingError

SpecApp == InitTimeline /\ [][NextApp]_vars

\* the thread's event loop delivers started, process_video terminates and
\* run returns; the foreground event loop delivers every queued signal
AppFairness ==
    /\ WF_vars(ThreadStarted)
    /\ WF_vars(EmitTerminal)
    /\ WF_vars(RunReturns)
    /\ WF_vars(OnProcessingProgress)
    /\ WF_vars(OnProcessingFinished)
    /\ WF_vars(OnProcessingError)

SpecAppFair == SpecApp /\ AppFairness

\* C14: at most one processing job is active at any time: a submission made
\* while _processing is true creates no worker and no thread and changes no
\* state, and at most one ProcessingWorker is ever running.
C14_OneJobAtATime ==
    /\ [](workers_running <= 1)
    /\ [][(StartProcessing /\ _processing) =>
            /\ UNCHANGED <<_processing, _worker, _worker_thread, aliased,
                           worker_run, workers_running, app_queue,
                           processing_enabled>>
            /\ UNCHANGED <<timelineVars, playerVars>>]_vars

C14_Witness ==
    /\ submit_call = [outcome |-> "busy", busy |-> TRUE]
    /\ workers_running = 1
    /\ _worker.exists

\* C15: a running job works on a snapshot of the zone timeline: zone edits
\* made on the foreground timeline after submission never change the zones
\* the worker obtains for any frame.
C15_WorkerSeesSnapshot ==
    [][(_worker.exists /\ _worker'.exists) =>
          \A f \in 0..ClipFrames :
              proc_get_zones_at_frame(_worker'.keyframes, f)
                  = proc_get_zones_at_frame(_worker.keyframes, f)]_vars

(***************************************************************************)
(* SpecLoad: videos opened one after another, zones drawn, saved to and    *)
(* restored from each video's sidecar, and submitted                       *)
(***************************************************************************)
\* _save_keyframes: save_to_file(self.video.video_path)
SaveKeyframes ==
    /\ video.video_path # "None"
    /\ sidecars' =
          [sidecars EXCEPT ![video.video_path] =
              [kind |-> "object", members |-> to_dict(_keyframes)]]
    /\ UNCHANGED zones_owner
    /\ UNCHANGED <<timelineVars, playerVars, appVars, appRest>>

\* another program writes or deletes the sidecar of one video
ForeignSidecar ==
    \E path \in AppVideos :
        /\ sidecars' \in
              {[sidecars EXCEPT ![path] = sc] :
                  sc \in ForeignSidecars \cup {NoSidecar}}
        /\ UNCHANGED zones_owner
        /\ UNCHANGED <<timelineVars, playerVars, appVars, appRest>>

NextLoad ==
    \/ LoadVideo
    \/ DrawZone
    \/ ClearKeyframes
    \/ SaveKeyframes
    \/ ForeignSidecar
    \/ StartProcessing

SpecLoad == InitTimeline /\ [][NextLoad]_vars

\* C22: the zone timeline is cleared when a new video loads: after any
\* sequence of video-load attempts and zone edits the timeline contains zones
\* only for the currently loaded video; after a successful load it equals
\* that video's sidecar content if a loadable sidecar exists and is empty
\* otherwise; zones of one video are never saved under or processed against
\* another video.
C22_TimelineBelongsToLoadedVideo ==
    /\ [](~is_empty(_keyframes) => zones_owner = video.video_path)
    /\ [][(LoadVideo /\ is_loaded(video')) =>
            _keyframes' =
                IF Loadable(sidecars[video'.video_path])
                THEN from_dict(sidecars[video'.video_path].members)
                ELSE <<>>]_vars
    /\ [][SaveKeyframes => zones_owner = video.video_path]_vars
    /\ [][(StartProcessing /\ submit_call'.outcome = "accepted") =>
            /\ zones_owner = video.video_path
            /\ _worker'.video_path = video.video_path
            /\ _worker'.keyframes = to_dict(_keyframes)]_vars

(***************************************************************************)
(* SpecEdit: the timeline edited through calls whose arguments and return  *)
(* value are recorded                                                      *)
(***************************************************************************)
\* frames a caller may name: the keyframes in use and one never used
EditFrames == EditKeyframes \cup {5}

\* ok = remove_zone(frame, index)
RemoveZoneCall ==
    \E frame \in EditFrames, index \in -1..MaxZones :
        /\ _keyframes' = remove_zone(_keyframes, frame, index)
        /\ remove_call' = [frame |-> frame, index |-> index,
                           ok |-> remove_zone_ok(_keyframes, frame, index),
                           called |-> TRUE]
        /\ UNCHANGED <<query_frame, zones_result>>
        /\ UNCHANGED <<jobVars, maskVars, persistVars, playerVars>>
        /\ UNCHANGED appVars
        /\ UNCHANGED loadVars

NextEdit ==
    \/ EditAddZone
    \/ RemoveZoneCall
    \/ RemoveKeyframe
    \/ Clear

SpecEdit == InitTimeline /\ [][NextEdit]_vars

JobKeyframes == {0, 2}
JobZoneLists == {<<ZoneA>>, <<ZoneOut>>, <<ZoneA, ZoneB>>}
JobTimelines ==
    UNION {[K -> JobZoneLists] : K \in SUBSET JobKeyframes}

CancelledMsg == "Processing cancelled"

Running == pc \notin {"idle", "done"}

\* a frame has been read and its progress checkpoint has not been passed
FrameInHand == pc \in {"inpaint", "write", "progress"}

\* run(): from propainter import process_video
WorkerRun ==
    /\ pc = "start"
    /\ \/ /\ pc' = "open"
          /\ UNCHANGED signals
       \/ \* ImportError
          /\ signals' = Append(signals, <<"error", "ProPainter module not found">>)
          /\ pc' = "done"
    /\ UNCHANGED <<timelineVars, extVars>>
    /\ UNCHANGED mux_result
    /\ UNCHANGED ffmpeg_call
    /\ UNCHANGED <<src_n, chunk_size, keyframes, _cancelled, cap_open, cap_pos,
                   out_open, total_frames, model, frame_idx, frames_buffer,
                   masks_buffer, processed, sink, temp_file, output_file,
                   batches, model_calls, progress_calls, cancel_at>>

\* finished.emit placed after the try statement instead of inside it
OpenCapture_ErrorThenFinished ==
    /\ pc = "open"
    /\ \/ /\ cap_open' = TRUE
          /\ total_frames' = src_n
          /\ pc' = "writer"
          /\ UNCHANGED signals
       \/ /\ signals' = Append(signals, <<"error", "Could not open video">>)
          /\ pc' = "return"
          /\ UNCHANGED <<cap_open, total_frames>>
    /\ UNCHANGED <<timelineVars, extVars>>
    /\ UNCHANGED mux_result
    /\ UNCHANGED ffmpeg_call
    /\ UNCHANGED <<src_n, chunk_size, keyframes, _cancelled, cap_pos,
                   out_open, model, frame_idx, frames_buffer,
                   masks_buffer, processed, sink, temp_file, output_file,
                   batches, model_calls, progress_calls, cancel_at>>

\* cap = cv2.VideoCapture(input_path); metadata
OpenCapture ==
    /\ pc = "open"
    /\ \/ /\ cap_open' = TRUE
          /\ total_frames' = src_n
          /\ pc' = "writer"
          /\ UNCHANGED signals
       \/ \* not cap.isOpened(): ValueError, reported by run()
          /\ signals' = Append(signals, <<"error", "Could not open video">>)
          /\ pc' = "done"
          /\ UNCHANGED <<cap_open, total_frames>>
    /\ UNCHANGED <<timelineVars, extVars>>
    /\ UNCHANGED mux_result
    /\ UNCHANGED ffmpeg_call
    /\ UNCHANGED <<src_n, chunk_size, keyframes, _cancelled, cap_pos,
                   out_open, model, frame_idx, frames_buffer,
                   masks_buffer, processed, sink, temp_file, output_file,
                   batches, model_calls, progress_calls, cancel_at>>

\* out = cv2.VideoWriter(temp_output, ...)
OpenWriter ==
    /\ pc = "writer"
    /\ out_open' = TRUE
    /\ temp_file' = "open"
    /\ pc' = "load"
    /\ UNCHANGED <<timelineVars, extVars>>
    /\ UNCHANGED mux_result
    /\ UNCHANGED ffmpeg_call
    /\ UNCHANGED <<src_n, chunk_size, keyframes, _cancelled, signals, cap_open,
                   cap_pos, total_frames, model, frame_idx, frames_buffer,
                   masks_buffer, processed, sink, output_file,
                   batches, model_calls, progress_calls, cancel_at>>

\* inpainter = LamaInpainter(); frame_idx = 0; buffers = []
LoadModel ==
    /\ pc = "load"
    /\ \/ model' = "SimpleLama"
       \/ \* _load_model swallows the exception
          model' = "None"
    /\ frame_idx' = 0
    /\ frames_buffer' = <<>>
    /\ masks_buffer' = <<>>
    /\ pc' = "read"
    /\ UNCHANGED <<timelineVars, extVars>>
    /\ UNCHANGED mux_result
    /\ UNCHANGED ffmpeg_call
    /\ UNCHANGED <<src_n, chunk_size, keyframes, _cancelled, signals, cap_open,
                   cap_pos, out_open, total_frames, processed, sink, temp_file,
                   output_file, batches, model_calls, progress_calls,
                   cancel_at>>

\* the zone lookup keyed by the position inside the chunk
ReadFrame_ChunkIndex ==
    /\ pc = "read"
    /\ cap_pos < src_n
    /\ LET frame_rgb == cvtColor(SourceFrame(cap_pos))
           mask == FrameMask(keyframes, Len(frames_buffer))
           buffer == Append(frames_buffer, frame_rgb)
       IN  /\ frames_buffer' = buffer
           /\ masks_buffer' = Append(masks_buffer, mask)
           /\ pc' = IF ChunkFull(buffer, chunk_size) THEN "inpaint" ELSE "progress"
    /\ cap_pos' = cap_pos + 1
    /\ UNCHANGED <<timelineVars, extVars>>
    /\ UNCHANGED mux_result
    /\ UNCHANGED ffmpeg_call
    /\ UNCHANGED <<src_n, chunk_size, keyframes, _cancelled, signals, cap_open,
                   out_open, total_frames, model, frame_idx, processed, sink,
                   temp_file, output_file, batches, model_calls,
                   progress_calls, cancel_at>>

\* ret, frame = cap.read() ... masks_buffer.append(mask); chunk test
ReadFrame ==
    /\ pc = "read"
    /\ cap_pos < src_n
    /\ LET frame_rgb == cvtColor(SourceFrame(cap_pos))
           mask == FrameMask(keyframes, frame_idx)
           buffer == Append(frames_buffer, frame_rgb)
       IN  /\ frames_buffer' = buffer
           /\ masks_buffer' = Append(masks_buffer, mask)
           /\ pc' = IF ChunkFull(buffer, chunk_size) THEN "inpaint" ELSE "progress"
    /\ cap_pos' = cap_pos + 1
    /\ UNCHANGED <<timelineVars, extVars>>
    /\ UNCHANGED mux_result
    /\ UNCHANGED ffmpeg_call
    /\ UNCHANGED <<src_n, chunk_size, keyframes, _cancelled, signals, cap_open,
                   out_open, total_frames, model, frame_idx, processed, sink,
                   temp_file, output_file, batches, model_calls,
                   progress_calls, cancel_at>>

\* if not ret: break; if frames_buffer:
ReadEnd ==
    /\ pc = "read"
    /\ cap_pos >= src_n
    /\ pc' = IF frames_buffer # <<>> THEN "final_inpaint" ELSE "release"
    /\ UNCHANGED <<timelineVars, extVars>>
    /\ UNCHANGED mux_result
    /\ UNCHANGED ffmpeg_call
    /\ UNCHANGED <<src_n, chunk_size, keyframes, _cancelled, signals, cap_open,
                   cap_pos, out_open, total_frames, model, frame_idx,
                   frames_buffer, masks_buffer, processed, sink, temp_file,
                   output_file, batches, model_calls, progress_calls,
                   cancel_at>>

\* processed = inpainter.process_video(frames_buffer, masks_buffer)
BatchCall(next) ==
    LET res == LamaProcessVideo(frames_buffer, masks_buffer, model)
        called == SelectSeq(res, LAMBDA r : r.called)
    IN  /\ processed' = [i \in 1..Len(res) |-> res[i].result]
        /\ batches' = Append(batches, [frames |-> frames_buffer,
                                       masks |-> masks_buffer])
        /\ model_calls' = model_calls \o
                            [i \in 1..Len(called) |-> called[i].result.idx]
        /\ pc' = next
        /\ UNCHANGED <<timelineVars, extVars>>
        /\ UNCHANGED mux_result
        /\ UNCHANGED ffmpeg_call
        /\ UNCHANGED <<src_n, chunk_size, keyframes, _cancelled, signals,
                       cap_open, cap_pos, out_open, total_frames, model,
                       frame_idx, frames_buffer, masks_buffer, sink, temp_file,
                       output_file, progress_calls, cancel_at>>

InpaintChunk ==
    /\ pc = "inpaint"
    /\ BatchCall("write")

\* for p_frame in processed: out.write(cv2.cvtColor(p_frame, RGB2BGR))
WriteOne ==
    /\ processed # <<>>
    /\ sink' = Append(sink, cvtColor(Head(processed)))
    /\ processed' = Tail(processed)
    /\ UNCHANGED <<timelineVars, extVars>>
    /\ UNCHANGED mux_result
    /\ UNCHANGED ffmpeg_call
    /\ UNCHANGED <<src_n, chunk_size, keyframes, pc, _cancelled, signals,
                   cap_open, cap_pos, out_open, total_frames, model,
                   frame_idx, frames_buffer, masks_buffer, temp_file,
                   output_file, batches, model_calls, progress_calls,
                   cancel_at>>

WriteFrame_Interruptible ==
    /\ pc = "write"
    /\ IF _cancelled
       THEN /\ signals' = Append(signals, <<"error", CancelledMsg>>)
            /\ pc' = "done"
            /\ UNCHANGED <<timelineVars, extVars>>
            /\ UNCHANGED mux_result
            /\ UNCHANGED ffmpeg_call
            /\ UNCHANGED <<src_n, chunk_size, keyframes, _cancelled,
                           cap_open, cap_pos, out_open, total_frames, model,
                           frame_idx, frames_buffer, masks_buffer, processed,
                           sink, temp_file, output_file, batches, model_calls,
                           progress_calls, cancel_at>>
       ELSE WriteOne

WriteFrame ==
    /\ pc = "write"
    /\ WriteOne

\* the flush resetting the frame buffer only
WriteEnd_KeepsMasks ==
    /\ pc = "write"
    /\ processed = <<>>
    /\ frames_buffer' = <<>>
    /\ pc' = "progress"
    /\ UNCHANGED <<timelineVars, extVars>>
    /\ UNCHANGED mux_result
    /\ UNCHANGED ffmpeg_call
    /\ UNCHANGED <<src_n, chunk_size, keyframes, _cancelled, signals, cap_open,
                   cap_pos, out_open, total_frames, model, frame_idx,
                   masks_buffer, processed, sink, temp_file, output_file,
                   batches, model_calls, progress_calls, cancel_at>>

\* frames_buffer = []; masks_buffer = []
WriteEnd ==
    /\ pc = "write"
    /\ processed = <<>>
    /\ frames_buffer' = <<>>
    /\ masks_buffer' = <<>>
    /\ pc' = "progress"
    /\ UNCHANGED <<timelineVars, extVars>>
    /\ UNCHANGED mux_result
    /\ UNCHANGED ffmpeg_call
    /\ UNCHANGED <<src_n, chunk_size, keyframes, _cancelled, signals, cap_open,
                   cap_pos, out_open, total_frames, model, frame_idx,
                   processed, sink, temp_file, output_file, batches,
                   model_calls, progress_calls, cancel_at>>

Callback_NoCheck(current) ==
    /\ progress_calls' = Append(progress_calls, <<current, total_frames>>)
    /\ signals' = Append(signals, <<"progress", current, total_frames>>)
    /\ pc' = "read"

\* what progress_callback does with (current, total)
Callback(current) ==
    /\ progress_calls' = Append(progress_calls, <<current, total_frames>>)
    /\ IF _cancelled
       THEN \* InterruptedError leaves process_video; run() reports it
            /\ signals' = Append(signals, <<"error", CancelledMsg>>)
            /\ pc' = "done"
       ELSE /\ signals' = Append(signals, <<"progress", current, total_frames>>)
            /\ pc' = "read"

Progress_BeforeIncrement ==
    /\ pc = "progress"
    /\ frame_idx' = frame_idx + 1
    /\ Callback(frame_idx)
    /\ UNCHANGED <<timelineVars, extVars>>
    /\ UNCHANGED mux_result
    /\ UNCHANGED ffmpeg_call
    /\ UNCHANGED <<src_n, chunk_size, keyframes, _cancelled, cap_open,
                   cap_pos, out_open, total_frames, model, frames_buffer,
                   masks_buffer, processed, sink, temp_file, output_file,
                   batches, model_calls, cancel_at>>

\* frame_idx += 1; progress_callback(frame_idx, total_frames)
Progress ==
    /\ pc = "progress"
    /\ frame_idx' = frame_idx + 1
    /\ Callback(frame_idx + 1)
    /\ UNCHANGED <<timelineVars, extVars>>
    /\ UNCHANGED mux_result
    /\ UNCHANGED ffmpeg_call
    /\ UNCHANGED <<src_n, chunk_size, keyframes, _cancelled, cap_open,
                   cap_pos, out_open, total_frames, model, frames_buffer,
                   masks_buffer, processed, sink, temp_file, output_file,
                   batches, model_calls, cancel_at>>

FinalInpaint_Skipped ==
    /\ pc = "final_inpaint"
    /\ pc' = "release"
    /\ UNCHANGED <<timelineVars, extVars>>
    /\ UNCHANGED mux_result
    /\ UNCHANGED ffmpeg_call
    /\ UNCHANGED <<src_n, chunk_size, keyframes, _cancelled, signals, cap_open,
                   cap_pos, out_open, total_frames, model, frame_idx,
                   frames_buffer, masks_buffer, processed, sink, temp_file,
                   output_file, batches, model_calls, progress_calls,
                   cancel_at>>

\* the flush after the loop
FinalInpaint ==
    /\ pc = "final_inpaint"
    /\ BatchCall("final_write")

FinalWrite ==
    /\ pc = "final_write"
    /\ WriteOne

FinalWriteEnd ==
    /\ pc = "final_write"
    /\ processed = <<>>
    /\ pc' = "release"
    /\ UNCHANGED <<timelineVars, extVars>>
    /\ UNCHANGED mux_result
    /\ UNCHANGED ffmpeg_call
    /\ UNCHANGED <<src_n, chunk_size, keyframes, _cancelled, signals, cap_open,
                   cap_pos, out_open, total_frames, model, frame_idx,
                   frames_buffer, masks_buffer, processed, sink, temp_file,
                   output_file, batches, model_calls, progress_calls,
                   cancel_at>>

\* cap.release(); out.release()
Release ==
    /\ pc = "release"
    /\ cap_open' = FALSE
    /\ out_open' = FALSE
    /\ temp_file' = "closed"
    /\ pc' = "convert"
    /\ UNCHANGED <<timelineVars, extVars>>
    /\ UNCHANGED mux_result
    /\ UNCHANGED ffmpeg_call
    /\ UNCHANGED <<src_n, chunk_size, keyframes, _cancelled, signals, cap_pos,
                   total_frames, model, frame_idx, frames_buffer, masks_buffer,
                   processed, sink, output_file, batches, model_calls,
                   progress_calls, cancel_at>>

\* the two entries of common_paths
CommonPaths == <<"C:/ffmpeg/bin/ffmpeg.exe", "C:/Program Files/ffmpeg/bin/ffmpeg.exe">>

\* what the machine offers: whether imageio_ffmpeg imports and what its
\* get_ffmpeg_exe does, whether ffmpeg is on PATH, which common paths exist
FfmpegEnvs ==
    [bundled : {"ImportError", "exe", "RuntimeError"},
     which : BOOLEAN,
     exists : SUBSET (1..Len(CommonPaths))]

\* one probe of the search: the source asked and what it answered
ProbeBundled(env) == <<"imageio_ffmpeg", env.bundled>>
ProbeWhich(env) == <<"PATH", IF env.which THEN "found" ELSE "missing">>
ProbeCommon(env, i) ==
    <<CommonPaths[i], IF i \in env.exists THEN "found" ELSE "missing">>

Returns(probes, path) == [probes |-> probes, ret |-> path, raised |-> "none"]
Raises(probes, exc) == [probes |-> probes, ret |-> "", raised |-> exc]

get_ffmpeg_path_LastCommon(env) ==
    IF env.bundled = "exe"
    THEN Returns(<<ProbeBundled(env)>>, "imageio_ffmpeg")
    ELSE IF env.bundled = "RuntimeError"
    THEN Raises(<<ProbeBundled(env)>>, "RuntimeError")
    ELSE IF env.which
    THEN Returns(<<ProbeBundled(env), ProbeWhich(env)>>, "PATH")
    ELSE IF 2 \in env.exists
    THEN Returns(<<ProbeBundled(env), ProbeWhich(env), ProbeCommon(env, 2)>>,
                 CommonPaths[2])
    ELSE IF 1 \in env.exists
    THEN Returns(<<ProbeBundled(env), ProbeWhich(env), ProbeCommon(env, 2),
                   ProbeCommon(env, 1)>>, CommonPaths[1])
    ELSE Raises(<<ProbeBundled(env), ProbeWhich(env), ProbeCommon(env, 2),
                  ProbeCommon(env, 1)>>, "FileNotFoundError")

\* get_ffmpeg_path: only ImportError lets the search go past imageio_ffmpeg;
\* the for loop over the two common_paths is unrolled
get_ffmpeg_path(env) ==
    IF env.bundled = "exe"
    THEN Returns(<<ProbeBundled(env)>>, "imageio_ffmpeg")
    ELSE IF env.bundled = "RuntimeError"
    THEN Raises(<<ProbeBundled(env)>>, "RuntimeError")
    ELSE IF env.which
    THEN Returns(<<ProbeBundled(env), ProbeWhich(env)>>, "PATH")
    ELSE IF 1 \in env.exists
    THEN Returns(<<ProbeBundled(env), ProbeWhich(env), ProbeCommon(env, 1)>>,
                 CommonPaths[1])
    ELSE IF 2 \in env.exists
    THEN Returns(<<ProbeBundled(env), ProbeWhich(env), ProbeCommon(env, 1),
                   ProbeCommon(env, 2)>>, CommonPaths[2])
    ELSE Raises(<<ProbeBundled(env), ProbeWhich(env), ProbeCommon(env, 1),
                  ProbeCommon(env, 2)>>, "FileNotFoundError")

\* convert_to_mp4: get_ffmpeg_path(), then subprocess.run starts ffmpeg
Convert ==
    /\ pc = "convert"
    /\ \E env \in FfmpegEnvs :
         LET found == get_ffmpeg_path(env)
         IN  /\ ffmpeg_call' = found
             /\ IF found.raised = "none"
                THEN /\ pc' = "mux"
                     /\ UNCHANGED mux_result
                ELSE \* the exception reaches process_video's except clause
                     /\ pc' = "move"
                     /\ mux_result' = "notfound"
    /\ UNCHANGED <<timelineVars, extVars>>
    /\ UNCHANGED <<src_n, chunk_size, keyframes, _cancelled, signals, cap_open,
                   cap_pos, out_open, total_frames, model, frame_idx,
                   frames_buffer, masks_buffer, processed, sink, temp_file,
                   output_file, batches, model_calls, progress_calls,
                   cancel_at>>

\* ffmpeg -y ... output_path : the tool writes output_path itself
Mux ==
    /\ pc = "mux"
    /\ \/ \* ffmpeg opens output_path and starts writing
          /\ output_file = "absent"
          /\ output_file' = "partial"
          /\ pc' = "mux"
          /\ UNCHANGED mux_result
       \/ \* exit status 0
          /\ output_file = "partial"
          /\ output_file' = "muxed"
          /\ pc' = "remove"
          /\ mux_result' = "ok"
       \/ \* non-zero exit status: CalledProcessError (check=True)
          /\ pc' = "move"
          /\ mux_result' = "failed"
          /\ UNCHANGED output_file
    /\ UNCHANGED ffmpeg_call
    /\ UNCHANGED <<timelineVars, extVars>>
    /\ UNCHANGED <<src_n, chunk_size, keyframes, _cancelled, signals, cap_open,
                   cap_pos, out_open, total_frames, model, frame_idx,
                   frames_buffer, masks_buffer, processed, sink, temp_file,
                   batches, model_calls, progress_calls, cancel_at>>

\* os.remove(temp_output)
RemoveTemp ==
    /\ pc = "remove"
    /\ \/ /\ temp_file' = "absent"
          /\ pc' = "return"
       \/ \* os.remove raises OSError inside the try block: except Exception
          /\ pc' = "move"
          /\ UNCHANGED temp_file
    /\ UNCHANGED <<timelineVars, extVars>>
    /\ UNCHANGED mux_result
    /\ UNCHANGED ffmpeg_call
    /\ UNCHANGED <<src_n, chunk_size, keyframes, _cancelled, signals, cap_open,
                   cap_pos, out_open, total_frames, model, frame_idx,
                   frames_buffer, masks_buffer, processed, sink, output_file,
                   batches, model_calls, progress_calls, cancel_at>>

\* the except clause re-raising instead of falling back
MoveTemp_Reraise ==
    /\ pc = "move"
    /\ signals' = Append(signals, <<"error", "FFmpeg conversion failed">>)
    /\ pc' = "done"
    /\ UNCHANGED <<timelineVars, extVars>>
    /\ UNCHANGED mux_result
    /\ UNCHANGED ffmpeg_call
    /\ UNCHANGED <<src_n, chunk_size, keyframes, _cancelled, cap_open,
                   cap_pos, out_open, total_frames, model, frame_idx,
                   frames_buffer, masks_buffer, processed, sink, temp_file,
                   output_file, batches, model_calls, progress_calls,
                   cancel_at>>

\* except Exception: shutil.move(temp_output, output_path)
MoveTemp ==
    /\ pc = "move"
    /\ output_file' = "raw"
    /\ temp_file' = "absent"
    /\ pc' = "return"
    /\ UNCHANGED <<timelineVars, extVars>>
    /\ UNCHANGED mux_result
    /\ UNCHANGED ffmpeg_call
    /\ UNCHANGED <<src_n, chunk_size, keyframes, _cancelled, signals, cap_open,
                   cap_pos, out_open, total_frames, model, frame_idx,
                   frames_buffer, masks_buffer, processed, sink,
                   batches, model_calls, progress_calls, cancel_at>>

\* run() looking at the cancel flag once more before it reports success
Finished_ChecksCancel ==
    /\ pc = "return"
    /\ signals' = Append(signals, IF _cancelled THEN <<"error", CancelledMsg>>
                                  ELSE <<"finished">>)
    /\ pc' = "done"
    /\ UNCHANGED <<timelineVars, extVars>>
    /\ UNCHANGED mux_result
    /\ UNCHANGED ffmpeg_call
    /\ UNCHANGED <<src_n, chunk_size, keyframes, _cancelled, cap_open,
                   cap_pos, out_open, total_frames, model, frame_idx,
                   frames_buffer, masks_buffer, processed, sink, temp_file,
                   output_file, batches, model_calls, progress_calls,
                   cancel_at>>

\* process_video returns; run(): self.finished.emit(self.output_path)
Finished ==
    /\ pc = "return"
    /\ signals' = Append(signals, <<"finished">>)
    /\ pc' = "done"
    /\ UNCHANGED <<timelineVars, extVars>>
    /\ UNCHANGED mux_result
    /\ UNCHANGED ffmpeg_call
    /\ UNCHANGED <<src_n, chunk_size, keyframes, _cancelled, cap_open,
                   cap_pos, out_open, total_frames, model, frame_idx,
                   frames_buffer, masks_buffer, processed, sink, temp_file,
                   output_file, batches, model_calls, progress_calls,
                   cancel_at>>

\* ProcessingWorker.cancel, called from the foreground thread
Cancel ==
    /\ Running
    /\ ~_cancelled
    /\ _cancelled' = TRUE
    /\ cancel_at' = [pc |-> pc, frame |-> cap_pos, written |-> Len(sink)]
    /\ UNCHANGED <<timelineVars, extVars>>
    /\ UNCHANGED mux_result
    /\ UNCHANGED ffmpeg_call
    /\ UNCHANGED <<src_n, chunk_size, keyframes, pc, signals, cap_open,
                   cap_pos, out_open, total_frames, model, frame_idx,
                   frames_buffer, masks_buffer, processed, sink, temp_file,
                   output_file, batches, model_calls, progress_calls>>

\* ProcessingWorker(video_path, output_path, keyframes.to_dict()) for a
\* source of src_n frames, about to run process_video with chunk_size
Init ==
    /\ _keyframes = <<>>
    /\ query_frame = 0
    /\ zones_result = <<>>
    /\ src_n \in 0..MaxFrames
    /\ chunk_size \in 1..MaxChunk
    /\ keyframes \in {to_dict(t) : t \in JobTimelines}
    /\ pc = "start"
    /\ _cancelled = FALSE
    /\ signals = <<>>
    /\ cap_open = FALSE
    /\ cap_pos = 0
    /\ out_open = FALSE
    /\ total_frames = 0
    /\ model = "None"
    /\ frame_idx = 0
    /\ frames_buffer = <<>>
    /\ masks_buffer = <<>>
    /\ processed = <<>>
    /\ sink = <<>>
    /\ temp_file = "absent"
    /\ output_file = "absent"
    /\ batches = <<>>
    /\ model_calls = <<>>
    /\ progress_calls = <<>>
    /\ cancel_at = NoCancelYet
    /\ mux_result = "none"
    /\ ffmpeg_call = NoLookup
    /\ ExtIdle

Next ==
    \/ WorkerRun
    \/ OpenCapture
    \/ OpenWriter
    \/ LoadModel
    \/ ReadFrame
    \/ ReadEnd
    \/ InpaintChunk
    \/ WriteFrame
    \/ WriteEnd
    \/ Progress
    \/ FinalInpaint
    \/ FinalWrite
    \/ FinalWriteEnd
    \/ Release
    \/ Convert
    \/ Mux
    \/ RemoveTemp
    \/ MoveTemp
    \/ Finished
    \/ Cancel

Spec == Init /\ [][Next]_vars

\* C4: for every timeline reachable by add/remove operations and every frame
\* index f, get_zones_at_frame(f) is the zone list, in stored order, of the
\* greatest keyframe index <= f, and the empty list when no keyframe index
\* is <= f; the value returned by the last query call is that list.
C4_ZonesAtGreatestKeyframe ==
    /\ \A f \in QueryFrames :
         LET z == get_zones_at_frame(_keyframes, f)
         IN  IF \E k \in DOMAIN _keyframes : k <= f
             THEN \E k \in DOMAIN _keyframes :
                     /\ k <= f
                     /\ \A j \in DOMAIN _keyframes : j <= f => j <= k
                     /\ z = _keyframes[k]
             ELSE z = <<>>
    /\ (_keyframes = (0 :> <<ZoneA>> @@ 10 :> <<ZoneB>>)) =>
         /\ get_zones_at_frame(_keyframes, 0) = <<ZoneA>>
         /\ get_zones_at_frame(_keyframes, 5) = <<ZoneA>>
         /\ get_zones_at_frame(_keyframes, 15) = <<ZoneB>>

C4_Witness ==
    /\ _keyframes = (0 :> <<ZoneA>> @@ 10 :> <<ZoneB>>)
    /\ query_frame = 5
    /\ zones_result = <<ZoneA>>

(***************************************************************************)
(* Properties of the job                                                   *)
(***************************************************************************)
LastSignal == IF signals = <<>> THEN <<"none">> ELSE signals[Len(signals)]

EmittedFinished == \E i \in 1..Len(signals) : signals[i][1] = "finished"

\* the job ended with the Cancelled outcome
Cancelled == pc = "done" /\ LastSignal = <<"error", CancelledMsg>>

\* the job ended with success
Succeeded == pc = "done" /\ LastSignal = <<"finished">>

\* the frame loop and the final flush are over
LoopDone ==
    \/ pc \in {"release", "convert", "mux", "remove", "move", "return"}
    \/ Succeeded

\* what the model returns for source frame i, as written to the sink
InpaintedFrame(i) == cvtColor(ModelOutput(cvtColor(SourceFrame(i))))

Ceil(n, c) == (n + c - 1) \div c

\* C1: when process_video runs to completion without cancellation, the
\* frames written to the raw sink are exactly src_n entries and the i-th
\* entry is the (possibly inpainted) i-th decoded source frame, for every
\* chunk size >= 1: nothing dropped, duplicated or reordered.
C1_OutputCountAndOrder ==
    LoopDone =>
        /\ Len(sink) = src_n
        /\ \A i \in 1..Len(sink) :
              sink[i] \in {SourceFrame(i - 1), InpaintedFrame(i - 1)}

C1_Witness ==
    /\ Succeeded
    /\ src_n = 3
    /\ chunk_size = 2
    /\ Len(sink) = 3
    /\ Len(batches) = 2

\* C2: a frame whose computed mask is all-zero reaches the sink as the
\* unmodified input frame and the inpainting model is never invoked with
\* it; the model is invoked only for frames whose mask has a non-zero pixel.
C2_ZeroMaskPassthrough ==
    /\ \A b \in 1..Len(batches) : \A i \in 1..Len(batches[b].frames) :
          LET f == batches[b].frames[i]
              m == batches[b].masks[i]
          IN  ~MaskAny(m) =>
                /\ \A c \in 1..Len(model_calls) : model_calls[c] # f.idx
                /\ \A k \in 1..Len(sink) :
                      sink[k].idx = f.idx => sink[k] = SourceFrame(f.idx)
    /\ \A c \in 1..Len(model_calls) :
          \E b \in 1..Len(batches) : \E i \in 1..Len(batches[b].frames) :
              /\ batches[b].frames[i].idx = model_calls[c]
              /\ MaskAny(batches[b].masks[i])

C2_Witness ==
    /\ Succeeded
    /\ src_n = 3
    /\ keyframes = to_dict(0 :> <<ZoneOut>> @@ 2 :> <<ZoneA>>)
    /\ model_calls = <<2>>
    /\ sink[1] = SourceFrame(0)
    /\ sink[3] = InpaintedFrame(2)

\* C3: a completed job of src_n frames with chunk size c makes exactly
\* ceil(src_n / c) batch calls; every call but the last carries c frames and
\* c masks, the last carries the remainder, no call is empty and every
\* source frame is in exactly one call.
C3_BatchCalls ==
    /\ \A b \in 1..Len(batches) :
          /\ batches[b].frames # <<>>
          /\ Len(batches[b].frames) = Len(batches[b].masks)
    /\ LoopDone =>
          LET n == Ceil(src_n, chunk_size)
          IN  /\ Len(batches) = n
              /\ \A b \in 1..(n - 1) : Len(batches[b].frames) = chunk_size
              /\ n > 0 =>
                   Len(batches[n].frames) = src_n - chunk_size * (n - 1)
              /\ \A j \in 0..(src_n - 1) :
                   Cardinality({<<b, i>> \in (1..n) \X (1..chunk_size) :
                        /\ i <= Len(batches[b].frames)
                        /\ batches[b].frames[i].idx = j}) = 1

C3_Witness ==
    /\ Succeeded
    /\ src_n = 2
    /\ chunk_size = 1
    /\ Len(batches) = 2
    /\ Len(batches[1].frames) = 1
    /\ Len(batches[2].frames) = 1

\* C5: when the inpainting model failed to load, process_video fails before
\* any source frame is decoded, before the intermediate file is opened and
\* before any progress call, and the job never ends in success.
C5_FailFastWithoutModel ==
    (model = "None" /\ pc \notin {"start", "open", "writer", "load"}) =>
        /\ cap_pos = 0
        /\ temp_file = "absent"
        /\ progress_calls = <<>>
        /\ ~EmittedFinished

\* C6: the progress sink is invoked exactly once per source frame consumed,
\* the k-th invocation carries (k, total frames), and no invocation happens
\* during the final partial-chunk flush or during finalization.
C6_ProgressOncePerFrame ==
    /\ \A k \in 1..Len(progress_calls) :
          progress_calls[k] = <<k, total_frames>>
    /\ Len(progress_calls) =
          IF FrameInHand THEN cap_pos - 1 ELSE cap_pos
    /\ LoopDone => Len(progress_calls) = src_n

C6_Witness ==
    /\ Succeeded
    /\ src_n = 3
    /\ chunk_size = 2
    /\ progress_calls = <<<<1, 3>>, <<2, 3>>, <<3, 3>>>>

\* every frame handed to the inpainter in a batch call has been written
SubmittedAllWritten ==
    \A b \in 1..Len(batches) : \A i \in 1..Len(batches[b].frames) :
        \E k \in 1..Len(sink) : sink[k].idx = batches[b].frames[i].idx

\* C7: the cancellation flag is read only at the per-frame progress call
\* site: a cancel raised while a chunk is being inpainted or written never
\* interrupts it (every submitted frame is written before the job stops),
\* and once the job is cancelled no frame is decoded, inpainted or written.
C7_CancelOnlyAtCheckpoint ==
    [][/\ (Cancelled' /\ ~Cancelled) =>
             /\ pc = "progress"
             /\ processed = <<>>
             /\ SubmittedAllWritten'
       /\ (_cancelled /\ pc \in {"inpaint", "write"}) =>
             pc' \in {"inpaint", "write", "progress"}
       /\ Cancelled =>
             UNCHANGED <<cap_pos, sink, batches, model_calls>>]_vars

C7_Witness ==
    /\ Cancelled
    /\ chunk_size = 2
    /\ cancel_at.pc = "write"
    /\ cancel_at.written = 0
    /\ Len(sink) = 2
    /\ SubmittedAllWritten

\* C8: if cancel is requested while frame k is being processed (frame k is
\* in hand, or the loop is about to read it), the job ends with the error
\* signal 'Processing cancelled' and never the finished signal, the sink
\* holds exactly the frames of the chunks flushed at or before frame k (a
\* source prefix whose length is a multiple of the chunk size), and nothing
\* exists at the requested output path.
C8_CancelledOutcome ==
    LET inHand == cancel_at.pc \in {"inpaint", "write", "progress"}
        aboutToRead == cancel_at.pc = "read" /\ cancel_at.frame < src_n
        k == IF inHand THEN cancel_at.frame ELSE cancel_at.frame + 1
        flushed == (k \div chunk_size) * chunk_size
    IN  (pc = "done" /\ (inHand \/ aboutToRead)) =>
            /\ Cancelled
            /\ ~EmittedFinished
            /\ Len(progress_calls) = k
            /\ Len(sink) = flushed
            /\ \A i \in 1..Len(sink) :
                  sink[i] \in {SourceFrame(i - 1), InpaintedFrame(i - 1)}
            /\ output_file = "absent"

C8_Witness ==
    /\ Cancelled
    /\ chunk_size = 2
    /\ cancel_at.pc = "progress"
    /\ cancel_at.frame = 3
    /\ Len(sink) = 2

\* C9: after a job ends by cancellation the intermediate file
\* <output_path>.temp.avi does not exist and no half-written file is left
\* at the target path.
C9_NoTempAfterCancel ==
    Cancelled =>
        /\ temp_file = "absent"
        /\ output_file \in {"absent", "muxed", "raw"}

\* C10: in every reachable state the requested output path either does not
\* exist or holds a complete deliverable; it is created only by the last
\* step (a mux that succeeded, or the fallback move).
C10_OutputNeverPartial ==
    /\ output_file \in {"absent", "muxed", "raw"}
    /\ output_file # "absent" => pc \in {"remove", "return", "done"}

\* process_video has returned (the worker may already have emitted finished)
Returned == pc = "return" \/ Succeeded

\* C11: if the reassembly step fails (mux tool not found, or the tool exits
\* with an error) after the raw stream is fully written, the raw
\* intermediate is moved to the requested output path, the output path
\* exists when process_video returns, and the worker emits finished, never
\* error.
C11_FallbackOnMuxFailure ==
    mux_result \in {"notfound", "failed"} =>
        /\ pc \in {"move", "return", "done"}
        /\ Len(sink) = src_n
        /\ Returned => (output_file = "raw" /\ temp_file = "absent")
        /\ pc = "done" => Succeeded
        /\ \A i \in 1..Len(signals) : signals[i][1] # "error"

C11_Witness ==
    /\ Succeeded
    /\ mux_result = "notfound"
    /\ output_file = "raw"
    /\ src_n = 2

\* C12: when process_video returns, a mux that succeeded has left its
\* result at the output path and the raw intermediate deleted, a mux that
\* failed has left the moved intermediate there, in both cases the
\* intermediate path no longer exists, and the fallback move happens only
\* when the mux itself failed.
C12_IntermediateDisposal ==
    /\ pc = "move" => mux_result \in {"notfound", "failed"}
    /\ Returned =>
          /\ temp_file = "absent"
          /\ mux_result = "ok" => output_file = "muxed"
          /\ mux_result \in {"notfound", "failed"} => output_file = "raw"

\* C13: on every exit path of a job (normal completion, an error,
\* source-open failure, cancellation) the source decoder handle and the raw
\* video writer are released before the job reports its outcome.
C13_HandlesReleasedOnExit ==
    pc = "done" => (~cap_open /\ ~out_open)

\* the frame loop of process_video, from the first read to the break
InFrameLoop == pc \in {"read", "inpaint", "write", "progress"}

\* C23: in every state of the frame loop the frame buffer and the mask
\* buffer have the same length, that length never exceeds chunk_size, the
\* i-th buffered frame is the decoded source frame whose own mask sits at
\* position i of the mask buffer, and the step that leaves a flush inside
\* the loop leaves both buffers empty.
C23_BuffersPairedAndBounded ==
    /\ [](InFrameLoop =>
            /\ Len(frames_buffer) = Len(masks_buffer)
            /\ Len(frames_buffer) <= chunk_size
            /\ \A i \in 1..Len(frames_buffer) :
                 /\ frames_buffer[i] =
                      cvtColor(SourceFrame(cap_pos - Len(frames_buffer) + i - 1))
                 /\ i <= Len(masks_buffer) =>
                      masks_buffer[i] = FrameMask(keyframes, frames_buffer[i].idx))
    /\ [][(pc = "write" /\ pc' = "progress") =>
            (frames_buffer' = <<>> /\ masks_buffer' = <<>>)]_vars

\* a flush inside the loop has happened and the next chunk holds one frame
\* with a non-zero mask
C23_Witness ==
    /\ pc = "progress"
    /\ chunk_size = 2
    /\ Len(batches) = 1
    /\ Len(frames_buffer) = 1
    /\ frames_buffer[1].idx = 2
    /\ MaskAny(masks_buffer[1])

\* zonesAt(i) of the job's snapshot: the list under the greatest keyframe
\* index <= i, the keys read as integers
SnapshotZonesAt(i) ==
    LET K == {k \in 0..i : PyStr(k) \in DOMAIN keyframes}
    IN  IF K = {} THEN <<>> ELSE keyframes[PyStr(MaxOf(K))]

\* every (frame, mask) pair appended so far, in append order
PairsSoFar ==
    LET RECURSIVE Flat(_)
        Flat(bs) ==
            IF bs = <<>> THEN <<>>
            ELSE [i \in 1..PyMin(Len(Head(bs).frames), Len(Head(bs).masks)) |->
                    <<Head(bs).frames[i], Head(bs).masks[i]>>] \o Flat(Tail(bs))
        flushed == Flat(batches)
        pending == IF pc \in {"write", "final_write", "release", "convert",
                              "mux", "remove", "move", "return", "done"}
                      /\ batches # <<>>
                      /\ batches[Len(batches)].frames = frames_buffer
                   THEN <<>>
                   ELSE [i \in 1..PyMin(Len(frames_buffer), Len(masks_buffer)) |->
                           <<frames_buffer[i], masks_buffer[i]>>]
    IN  flushed \o pending

\* C24: source frames are consumed in index order 0, 1, 2, ... and the
\* i-th decoded frame is paired with the mask made from zonesAt(i) of the
\* job's snapshot (the zero mask when no keyframe index is <= i), whatever
\* the chunk size and wherever the flushes fall.
C24_FramesInOrderWithOwnMask ==
    LET pairs == PairsSoFar
    IN  /\ Len(pairs) = cap_pos
        /\ \A n \in 1..Len(pairs) :
             LET zones == SnapshotZonesAt(n - 1)
             IN  /\ pairs[n][1] = cvtColor(SourceFrame(n - 1))
                 /\ pairs[n][2] =
                      IF zones = <<>> THEN ZeroMask
                      ELSE create_mask_from_zones(SrcWidth, SrcHeight, zones)

\* three frames went through chunks of two with the first keyframe at 2:
\* frames 0 and 1 got the zero mask, frame 2 a non-zero one
C24_Witness ==
    LET pairs == PairsSoFar
    IN  /\ src_n = 3
        /\ chunk_size = 2
        /\ DOMAIN keyframes = {PyStr(2)}
        /\ Len(pairs) = 3
        /\ ~MaskAny(pairs[1][2])
        /\ ~MaskAny(pairs[2][2])
        /\ MaskAny(pairs[3][2])

\* the positions in signals that hold finished or error
TerminalSignals == {i \in 1..Len(signals) : signals[i][1] \in {"finished", "error"}}

\* C28: a run of ProcessingWorker.run emits exactly one terminal signal,
\* finished or error: never two while it runs, exactly one once it has
\* ended, whether process_video returned or raised; the terminal signal is
\* the last signal of the run, so no progress signal follows it.
C28_ExactlyOneTerminalSignal ==
    /\ Cardinality(TerminalSignals) <= 1
    /\ TerminalSignals \subseteq {Len(signals)}
    /\ (pc = "done") = (TerminalSignals # {})

\* a run that reported progress and then ended with an error
C28_Witness ==
    /\ pc = "done"
    /\ Len(signals) = 3
    /\ signals[1][1] = "progress"
    /\ signals[2][1] = "progress"
    /\ signals[3] = <<"error", CancelledMsg>>

\* the cancel request arrived after the progress call of the last frame
LateCancel ==
    /\ cancel_at # NoCancelYet
    /\ src_n >= 1
    /\ cancel_at.frame = src_n
    /\ cancel_at.pc \in {"read", "final_inpaint", "final_write", "release",
                         "convert", "mux", "remove", "move", "return"}

\* C30: a cancel request that arrives after the progress call of the last
\* source frame is never observed: the run never reports the cancelled
\* outcome, and when it ends every source frame has been written, the
\* finalization has run, the output path holds a file and the last signal
\* is finished.
C30_LateCancelIgnored ==
    LateCancel =>
        /\ \A i \in 1..Len(signals) : signals[i] # <<"error", CancelledMsg>>
        /\ pc \in {"release", "convert", "mux", "remove", "move", "return",
                   "done"} => Len(sink) = src_n
        /\ pc = "done" =>
             /\ LastSignal = <<"finished">>
             /\ output_file \in {"muxed", "raw"}
             /\ mux_result # "none"

\* cancelled between the last progress call and the final flush of a
\* partial chunk; the run ended with finished
C30_Witness ==
    /\ LateCancel
    /\ cancel_at.pc = "read"
    /\ src_n = 3
    /\ chunk_size = 2
    /\ Len(sink) = 3
    /\ Succeeded

ProbeFound(p) == p[2] \in {"exe", "found"}
ProbeMissing(p) == p[2] \in {"ImportError", "missing"}

\* the lookup recorded in ffmpeg_call is an ordered search through order
\* that stops at the first source found and otherwise raises exc
OrderedSearch(order, exc) ==
    LET probes == ffmpeg_call.probes
        last == probes[Len(probes)]
    IN  /\ Len(probes) \in 1..Len(order)
        /\ \A i \in 1..Len(probes) : probes[i][1] = order[i]
        /\ \A i \in 1..(Len(probes) - 1) : ProbeMissing(probes[i])
        /\ IF ProbeFound(last)
           THEN ffmpeg_call.raised = "none" /\ ffmpeg_call.ret = last[1]
           ELSE /\ Len(probes) = Len(order)
                /\ ProbeMissing(last)
                /\ ffmpeg_call.raised = exc

\* a lookup that raised ends in the fallback and the job still succeeds
LookupFailureConsumed ==
    ffmpeg_call.raised \notin {"none", "not called"} =>
        /\ mux_result = "notfound"
        /\ pc \in {"move", "return", "done"}
        /\ pc = "done" => (LastSignal = <<"finished">> /\ output_file = "raw")

\* C25 as stated: the search tries the installed tool first, then the
\* bundled binary, then the known install paths, returns the first found,
\* and a not-found condition is consumed by the fallback.
C25_InstalledToolFirst ==
    ffmpeg_call # NoLookup =>
        /\ OrderedSearch(<<"PATH", "imageio_ffmpeg", CommonPaths[1],
                           CommonPaths[2]>>, "FileNotFoundError")
        /\ LookupFailureConsumed

\* C25 amended: the search asks the bundled binary first and its answer
\* is final whenever its package imports (a failure inside it is raised
\* as it is); only when the package is missing does the search go on to
\* the installed tool and then the known install paths in list order,
\* returning the first found and raising not-found when none is; whatever
\* the search raises is consumed by the fallback and the job succeeds.
C25_BundledBinaryFirst ==
    ffmpeg_call # NoLookup =>
        /\ \/ OrderedSearch(<<"imageio_ffmpeg", "PATH", CommonPaths[1],
                              CommonPaths[2]>>, "FileNotFoundError")
           \/ ffmpeg_call = Raises(<<<<"imageio_ffmpeg", "RuntimeError">>>>,
                                   "RuntimeError")
        /\ LookupFailureConsumed

\* nothing was found on a machine without the bundled package and the job
\* ended with the raw file at the output path
C25_Witness ==
    /\ ffmpeg_call.raised = "FileNotFoundError"
    /\ Len(ffmpeg_call.probes) = 4
    /\ Succeeded
    /\ output_file = "raw"

\* C26: starting from an empty KeyframeManager, after any sequence of
\* add_zone, remove_zone, remove_keyframe and clear calls every keyframe
\* present holds a non-empty zone list, is_empty is true exactly when no
\* zone is stored, and get_all_keyframe_numbers lists each keyframe index
\* exactly once, in strictly ascending order.
C26_TimelineWellFormed ==
    LET numbers == get_all_keyframe_numbers(_keyframes)
        no_zone_stored == \A k \in DOMAIN _keyframes : Len(_keyframes[k]) = 0
    IN  /\ \A k \in DOMAIN _keyframes : _keyframes[k] # <<>>
        /\ is_empty(_keyframes) = no_zone_stored
        /\ Len(numbers) = Cardinality(DOMAIN _keyframes)
        /\ {numbers[i] : i \in 1..Len(numbers)} = DOMAIN _keyframes
        /\ \A i \in 1..(Len(numbers) - 1) : numbers[i] < numbers[i + 1]

\* three keyframes, one of them holding the most zones a keyframe may
C26_Witness ==
    /\ get_all_keyframe_numbers(_keyframes) = <<0, 9, 10>>
    /\ Len(_keyframes[9]) = MaxZones
    /\ ~is_empty(_keyframes)

\* C27: for every timeline M reachable by add and remove operations and
\* every frame index f >= 0, processor.get_zones_at_frame(M.to_dict(), f)
\* gives the same zones in the same order as M.get_zones_at_frame(f); the
\* string keys of the dict are compared as integers.
C27_PipelineLookupAgreesWithEditor ==
    \A f \in {q \in QueryFrames : q >= 0} :
        proc_get_zones_at_frame(to_dict(_keyframes), f)
            = get_zones_at_frame(_keyframes, f)

\* keyframes 9 and 10 hold different lists and the editor was asked for
\* frame 15, where "10" is the greater key as a number and "9" as a string
C27_Witness ==
    /\ DOMAIN _keyframes = {9, 10}
    /\ _keyframes[9] # _keyframes[10]
    /\ query_frame = 15
    /\ zones_result = _keyframes[10]
    /\ proc_get_zones_at_frame(to_dict(_keyframes), 15) = _keyframes[10]

\* the flag is down, worker and thread are cleared, the controls are enabled
Released ==
    /\ ~_processing
    /\ _worker = NoWorker
    /\ _worker_thread = "None"
    /\ processing_enabled

\* C29: _processing is true exactly while a worker thread exists; every
\* accepted submission is eventually followed, process_video terminating,
\* by the finished or the error handler, which leaves _processing false,
\* worker and thread cleared and the controls enabled; a submission made
\* in that state with a video and zones present is accepted.
C29_ProcessingFlagReleased ==
    /\ [](/\ _processing = (_worker_thread # "None")
          /\ _processing = _worker.exists
          /\ _processing = ~processing_enabled)
    /\ _processing ~> Released
    /\ [][(OnProcessingFinished \/ OnProcessingError) => Released']_vars
    /\ [][(/\ StartProcessing
           /\ Released
           /\ video.video_path # "None"
           /\ ~is_empty(_keyframes)) =>
             (submit_call'.outcome = "accepted" /\ _processing')]_vars

\* a job was accepted, has run to its terminal handler and the flag is
\* down again
C29_Witness ==
    /\ submit_call.outcome = "accepted"
    /\ Released
    /\ workers_running = 0
    /\ app_queue = <<>>

====
